---- MODULE Spec2Model ----
(***************************************************************************)
(* MazeBot (maze_core.py): the perception-decision loop.  A current-state  *)
(* object is driven by MazeBot.loop; each state's run() polls screenshots, *)
(* matches templates against thresholds, clicks, and returns the next      *)
(* state object (or None).                                                 *)
(*                                                                         *)
(* Units.  Time is counted in tenths of a second (time.time() readings),   *)
(* thresholds and match scores in hundredths (0.76 is 76).                 *)
(***************************************************************************)
EXTENDS Integers, Sequences, FiniteSets, TLC

VARIABLES
    now,      \* the latest reading of time.time()
    cfg,      \* the mapping the parameter provider returns when called
    params,   \* MazeBot's runtime parameters (thr_main, ..., event_priority)
    stop,     \* MazeBot._stop
    cur,      \* MazeBot._current_state (NoState for None)
    pc,       \* position of the loop thread
    loc,      \* local variables of the run() in progress
    scr,      \* the screenshot grabbed by the latest iteration
    out,      \* what the latest iteration did: clicks issued, value returned
    gui,      \* the control surface (MainWindow), its bots and loop threads
    call      \* a call of the Match Engine: its inputs and what it returned

\* the bot and its loop thread
core == <<now, cfg, params, stop, cur, pc, loc, scr, out>>

\* what the loop thread of one bot leaves alone
others == <<gui, call>>

vars == <<now, cfg, params, stop, cur, pc, loc, scr, out, gui, call>>

-----------------------------------------------------------------------------
(* Bounds of the model *)

\* first clock reading (time.time() is far from 0.0, the initial _last)
Epoch == 10
\* last clock reading the model lets the clock reach
MaxTime == 610
\* number of template probes of one screenshot that score above zero
MaxVisible == 2
\* number of event-template probes of one screenshot that score above zero
MaxEvents == 2

\* clock advance between two consecutive readings that the model separates
Deltas == {0, 150}
\* match scores a probe of a visible template may have
Scores == {75, 90}

Secs(s) == s * 10

-----------------------------------------------------------------------------
(* Run parameters: MazeBot._update_runtime_params *)

\* float("nan"): the readings at or below this one stand for a float that
\* is not a number (so that a margin subtracted from it leaves it one)
NaN == 0 - 1000000
IsNaN(x) == x <= NaN

\* a < b on floats: false when either side is not a number
Lt(a, b) == ~IsNaN(a) /\ ~IsNaN(b) /\ a < b

\* Python's max(a, b) and min(a, b): a unless b > a, a unless b < a
Max(a, b) == IF Lt(a, b) THEN b ELSE a
Min(a, b) == IF Lt(b, a) THEN b ELSE a

clamp01(x) == IF Lt(x, 0) THEN 0 ELSE (IF Lt(100, x) THEN 100 ELSE x)

Get(p, k, d) == IF k \in DOMAIN p THEN p[k] ELSE d

\* "a,b,c" as its pieces: a name, "," or " " each
Str(pieces) == [t |-> "str", v |-> pieces]
List(items) == [t |-> "list", v |-> items]

default_priority ==
    Str(<<"event_boss", ",", "event_risky", ",", "event_battle", ",",
          "event_support", ",", "event_shop", ",", "event_event", ",",
          "event_unknown">>)

\* str.split(","): the segments between commas
RECURSIVE Split(_, _)
Split(pieces, acc) ==
    IF pieces = <<>> THEN <<acc>>
    ELSE IF Head(pieces) = "," THEN <<acc>> \o Split(Tail(pieces), <<>>)
    ELSE Split(Tail(pieces), Append(acc, Head(pieces)))

\* str.strip() of one segment: blanks at both ends removed
RECURSIVE LStrip(_)
LStrip(seg) ==
    IF seg # <<>> /\ Head(seg) = " " THEN LStrip(Tail(seg)) ELSE seg

RECURSIVE RStrip(_)
RStrip(seg) ==
    IF seg # <<>> /\ seg[Len(seg)] = " "
    THEN RStrip(SubSeq(seg, 1, Len(seg) - 1)) ELSE seg

Strip(seg) == RStrip(LStrip(seg))

\* a stripped segment as a name: the single piece, or the pieces joined
NameOf(seg) == IF Len(seg) = 1 THEN seg[1] ELSE seg

\* [x.strip() for x in segs if x.strip()]
RECURSIVE StripAll(_)
StripAll(segs) ==
    IF segs = <<>> THEN <<>>
    ELSE IF Strip(Head(segs)) = <<>> THEN StripAll(Tail(segs))
    ELSE <<NameOf(Strip(Head(segs)))>> \o StripAll(Tail(segs))

ParsePriority(raw) ==
    IF raw.t = "str" THEN StripAll(Split(raw.v, <<>>))
    ELSE IF raw.t = "list" THEN StripAll(raw.v)
    ELSE [i \in 1..Len(Split(default_priority.v, <<>>)) |->
             NameOf(Strip(Split(default_priority.v, <<>>)[i]))]

update_runtime_params(p) ==
    [ thr_main         |-> Get(p, "thr_main", 76),
      thr_tag          |-> Get(p, "thr_tag", 77),
      thr_skip_color   |-> Get(p, "thr_skip_color", 64),
      sleep_base       |-> Max(6, Get(p, "sleep_base", 30)),
      sleep_fast       |-> Max(6, Get(p, "sleep_fast", 20)),
      route_left_ratio |-> clamp01(Get(p, "route_left_ratio", 56)),
      event_priority   |-> ParsePriority(Get(p, "event_priority", default_priority)) ]

\* provider mappings the control surface can hold
CfgA == [k \in {"event_priority"} |->
            Str(<<"event_boss", ",", "event_risky", ",", " ", "event_shop">>)]
CfgB == [k \in {"thr_main", "event_priority"} |->
            IF k = "thr_main" THEN 70
            ELSE Str(<<"event_risky", ",", "event_shop">>)]
Cfgs == {CfgA, CfgB}

-----------------------------------------------------------------------------
(* Screenshots and the Match Engine.  A screenshot is given by the score   *)
(* each probe (template key, colour mode, region) reaches on it; a probe   *)
(* outside its domain scores 0.                                            *)

Probe(key, mode, roi) == <<key, mode, roi>>

Score(s, p) == IF p \in DOMAIN s THEN s[p] ELSE 0

Miss == [hit |-> FALSE, key |-> "", maxv |-> 0, center |-> <<"", "", "">>]

\* a match that reports its best placement whatever its score
match_single_any_score(s, p, thr) ==
    [hit |-> TRUE, key |-> p[1], maxv |-> Score(s, p), center |-> p]

\* _match_single's threshold test and the MatchResult built from it; the
\* centre is kept symbolic: "the centre of the best match of this probe"
match_single(s, p, thr) ==
    IF Score(s, p) >= thr
    THEN [hit |-> TRUE, key |-> p[1], maxv |-> Score(s, p), center |-> p]
    ELSE Miss

match_gray(s, key, thr) == match_single(s, Probe(key, "gray", "full"), thr)

match_color(s, key, thr) == match_single(s, Probe(key, "color", "full"), thr)

match_roi(s, key, thr, roi, use_color) ==
    match_single(s, Probe(key, IF use_color THEN "color" ELSE "gray", roi.id), thr)

\* Python's  a or b  on Optional[MatchResult]
Or(a, b) == IF a.hit THEN a ELSE b

\* a region: its name and its four fractions (hundredths)
Roi(id, box) == [id |-> id, box |-> box]

-----------------------------------------------------------------------------
(* State instances: State_Base and its subclasses *)

NoCls == "-"

TIMEOUT_SECS(kind) ==
    CASE kind = "Init"          -> 15
      [] kind = "Prepare"       -> 15
      [] kind = "Route_Select"  -> 20
      [] kind = "Route_Confirm" -> 10
      [] kind = "Battle"        -> 45
      [] kind = "Boss_Battle"   -> 45
      [] kind = "Relic_Select"  -> 15
      [] kind = "Shop"          -> 10
      [] kind = "Support"       -> 10
      [] OTHER                  -> 25

\* State_Base.__init__
State_Base(kind, after, t) ==
    [kind |-> kind, after |-> after, t0 |-> t, last |-> 0, beat |-> 0,
     battle_cls |-> NoCls]

NoState == State_Base("None", <<>>, 0)

Init_State(t) == State_Base("Init", <<>>, t)
Prepare_State(t) == State_Base("Prepare", <<>>, t)
Route_Selection_State(t, after) == State_Base("Route_Select", after, t)
Battle_State(t) == State_Base("Battle", <<>>, t)
Boss_Battle_State(t) == State_Base("Boss_Battle", <<>>, t)
Relic_Selection_State(t, after) == State_Base("Relic_Select", after, t)
Shop_State(t, after) == State_Base("Shop", after, t)
Support_State(t, after) == State_Base("Support", after, t)

\* Route_Confirmation_State.__init__: battle_cls defaults to Battle_State
Route_Confirmation_State(t, after, battle_cls) ==
    [State_Base("Route_Confirm", after, t) EXCEPT
        !.battle_cls = IF battle_cls # NoCls THEN battle_cls ELSE "Battle"]

\* cls(self.bot) for a class object cls: the rest of the chain dropped
Construct_without_chain(cls, t, after) ==
    IF cls = "Route_Confirm" THEN Route_Confirmation_State(t, <<>>, NoCls)
    ELSE State_Base(cls, <<>>, t)

\* cls(self.bot, after=rest) for a class object cls
Construct(cls, t, after) ==
    IF cls = "Route_Confirm" THEN Route_Confirmation_State(t, after, NoCls)
    ELSE State_Base(cls, after, t)

\* every battle kind with the standard chain
POST_CHAIN_standard(kind) == <<"Route_Select">>

\* the class attribute POST_CHAIN
POST_CHAIN(kind) ==
    IF kind = "Boss_Battle" THEN <<"Shop", "Support", "Route_Select">>
    ELSE <<"Route_Select">>

\* a heartbeat that restarts the watchdog at every beat
heartbeat_restarting(self, t) ==
    [ st |-> IF t - self.last >= Secs(1)
             THEN [self EXCEPT !.last = t, !.beat = @ + 1, !.t0 = t]
             ELSE self,
      expired |-> (t - self.t0) > Secs(TIMEOUT_SECS(self.kind)) ]

\* a heartbeat that measures the timeout from the last beat
heartbeat_from_last_beat(self, t) ==
    [ st |-> IF t - self.last >= Secs(1)
             THEN [self EXCEPT !.last = t, !.beat = @ + 1]
             ELSE self,
      expired |-> (t - self.last) > Secs(TIMEOUT_SECS(self.kind)) ]

\* State_Base.heartbeat: the updated instance and the value returned
heartbeat(self, t) ==
    [ st |-> IF t - self.last >= Secs(1)
             THEN [self EXCEPT !.last = t, !.beat = @ + 1]
             ELSE self,
      expired |-> (t - self.t0) > Secs(TIMEOUT_SECS(self.kind)) ]

\* next_from_chain handing the whole chain on, its head included
next_from_chain_keep_head(self, t) ==
    IF self.after # <<>>
    THEN Construct(Head(self.after), t, self.after)
    ELSE Route_Selection_State(t, <<>>)

\* State_Base.next_from_chain
next_from_chain(self, t) ==
    IF self.after # <<>>
    THEN Construct(Head(self.after), t, Tail(self.after))
    ELSE Route_Selection_State(t, <<>>)

-----------------------------------------------------------------------------
(* One iteration of the inner loop of each state's run().  The inputs of   *)
(* an iteration are in: the stop flag read by the loop condition, the      *)
(* screenshot, and the clock reading t of the iteration (its calls of      *)
(* time.time() read the same value).  The result says whether run()        *)
(* returned, the value returned, the clicks issued in order, the instance  *)
(* after heartbeat() and the locals.                                       *)

Return(st, clicks, self, l) ==
    [done |-> TRUE, ret |-> st, clicks |-> clicks, self |-> self, loc |-> l,
     grabbed |-> TRUE]

Continue(clicks, self, l) ==
    [done |-> FALSE, ret |-> NoState, clicks |-> clicks, self |-> self, loc |-> l,
     grabbed |-> TRUE]

\* run() returned before b._grab() was called in the iteration
Early(st, self, l) == [Return(st, <<>>, self, l) EXCEPT !.grabbed = FALSE]

\* Init_State.run testing the route title before the next button
Init_State_run_route_first(self, b, l, in) ==
    LET hb == heartbeat(self, in.t)
        s == in.scr
        nxt == match_gray(s, "btn_next", b.thr_main)
    IN  IF in.stop THEN Early(NoState, self, l)
        ELSE IF hb.expired
        THEN Early(Route_Selection_State(in.t, <<>>), hb.st, l)
        ELSE IF \/ match_gray(s, "btn_explore", b.thr_main).hit
                \/ match_gray(s, "btn_explore_confirm", b.thr_main).hit
                \/ match_color(s, "btn_explore_confirm", b.thr_main).hit
                \/ match_gray(s, "tag_select", b.thr_tag).hit
        THEN Return(Prepare_State(in.t), <<>>, hb.st, l)
        ELSE IF match_gray(s, "title_route", b.thr_tag).hit
        THEN Return(Route_Selection_State(in.t, <<>>), <<>>, hb.st, l)
        ELSE IF nxt.hit
        THEN Continue(<<nxt.center>>, hb.st, l)
        ELSE IF match_gray(s, "btn_route_confirm", b.thr_main).hit
        THEN Return(Route_Confirmation_State(in.t, <<>>, NoCls), <<>>, hb.st, l)
        ELSE IF match_gray(s, "btn_battle_skip", b.thr_main).hit
        THEN Return(Battle_State(in.t), <<>>, hb.st, l)
        ELSE IF match_gray(s, "title_relic", b.thr_tag).hit
        THEN Return(Relic_Selection_State(in.t, <<>>), <<>>, hb.st, l)
        ELSE Continue(<<>>, hb.st, l)

\* Init_State.run
Init_State_run(self, b, l, in) ==
    LET hb == heartbeat(self, in.t)
        s == in.scr
        nxt == match_gray(s, "btn_next", b.thr_main)
    IN  IF in.stop THEN Early(NoState, self, l)
        ELSE IF hb.expired
        THEN Early(Route_Selection_State(in.t, <<>>), hb.st, l)
        ELSE IF \/ match_gray(s, "btn_explore", b.thr_main).hit
                \/ match_gray(s, "btn_explore_confirm", b.thr_main).hit
                \/ match_color(s, "btn_explore_confirm", b.thr_main).hit
                \/ match_gray(s, "tag_select", b.thr_tag).hit
        THEN Return(Prepare_State(in.t), <<>>, hb.st, l)
        ELSE IF nxt.hit
        THEN Continue(<<nxt.center>>, hb.st, l)
        ELSE IF match_gray(s, "title_route", b.thr_tag).hit
        THEN Return(Route_Selection_State(in.t, <<>>), <<>>, hb.st, l)
        ELSE IF match_gray(s, "btn_route_confirm", b.thr_main).hit
        THEN Return(Route_Confirmation_State(in.t, <<>>, NoCls), <<>>, hb.st, l)
        ELSE IF match_gray(s, "btn_battle_skip", b.thr_main).hit
        THEN Return(Battle_State(in.t), <<>>, hb.st, l)
        ELSE IF match_gray(s, "title_relic", b.thr_tag).hit
        THEN Return(Relic_Selection_State(in.t, <<>>), <<>>, hb.st, l)
        ELSE Continue(<<>>, hb.st, l)

ROI_PREPARE == Roi("ROI_PREPARE", <<65, 80, 98, 98>>)

\* Prepare_State.run looking at the screenshot before the watchdog
Prepare_State_run_cue_first(self, b, l, in) ==
    LET hb == heartbeat(self, in.t)
        s == in.scr
        hit == Or(match_gray(s, "btn_explore", b.thr_main),
                  match_color(s, "btn_explore", b.thr_main))
        ok1 == Or(match_gray(s, "btn_explore_confirm", b.thr_main),
                  match_color(s, "btn_explore_confirm", b.thr_main))
        ok == IF ~ok1.hit
              THEN match_roi(s, "btn_explore_confirm", b.thr_main, ROI_PREPARE, TRUE)
              ELSE ok1
    IN  IF in.stop THEN Early(NoState, self, l)
        ELSE IF ~l.clicked_explore /\ hit.hit
        THEN Continue(<<hit.center>>, hb.st, [l EXCEPT !.clicked_explore = TRUE])
        ELSE IF ok.hit
        THEN Return(Route_Selection_State(in.t, <<>>), <<ok.center>>, hb.st, l)
        ELSE IF match_gray(s, "title_route", b.thr_tag).hit
        THEN Return(Route_Selection_State(in.t, <<>>), <<>>, hb.st, l)
        ELSE IF hb.expired
        THEN Early(Init_State(in.t), hb.st, l)
        ELSE Continue(<<>>, hb.st, l)

\* Prepare_State.run without the clicked_explore flag
Prepare_State_run_explore_again(self, b, l, in) ==
    LET hb == heartbeat(self, in.t)
        s == in.scr
        hit == Or(match_gray(s, "btn_explore", b.thr_main),
                  match_color(s, "btn_explore", b.thr_main))
        ok1 == Or(match_gray(s, "btn_explore_confirm", b.thr_main),
                  match_color(s, "btn_explore_confirm", b.thr_main))
        ok == IF ~ok1.hit
              THEN match_roi(s, "btn_explore_confirm", b.thr_main, ROI_PREPARE, TRUE)
              ELSE ok1
    IN  IF in.stop THEN Early(NoState, self, l)
        ELSE IF hb.expired
        THEN Early(Init_State(in.t), hb.st, l)
        ELSE IF hit.hit
        THEN Continue(<<hit.center>>, hb.st, [l EXCEPT !.clicked_explore = TRUE])
        ELSE IF ok.hit
        THEN Return(Route_Selection_State(in.t, <<>>), <<ok.center>>, hb.st, l)
        ELSE IF match_gray(s, "title_route", b.thr_tag).hit
        THEN Return(Route_Selection_State(in.t, <<>>), <<>>, hb.st, l)
        ELSE Continue(<<>>, hb.st, l)

\* Prepare_State.run
Prepare_State_run(self, b, l, in) ==
    LET hb == heartbeat(self, in.t)
        s == in.scr
        hit == Or(match_gray(s, "btn_explore", b.thr_main),
                  match_color(s, "btn_explore", b.thr_main))
        ok1 == Or(match_gray(s, "btn_explore_confirm", b.thr_main),
                  match_color(s, "btn_explore_confirm", b.thr_main))
        ok == IF ~ok1.hit
              THEN match_roi(s, "btn_explore_confirm", b.thr_main, ROI_PREPARE, TRUE)
              ELSE ok1
    IN  IF in.stop THEN Early(NoState, self, l)
        ELSE IF hb.expired
        THEN Early(Init_State(in.t), hb.st, l)
        ELSE IF ~l.clicked_explore /\ hit.hit
        THEN Continue(<<hit.center>>, hb.st, [l EXCEPT !.clicked_explore = TRUE])
        ELSE IF ok.hit
        THEN Return(Route_Selection_State(in.t, <<>>), <<ok.center>>, hb.st, l)
        ELSE IF match_gray(s, "title_route", b.thr_tag).hit
        THEN Return(Route_Selection_State(in.t, <<>>), <<>>, hb.st, l)
        ELSE Continue(<<>>, hb.st, l)

\* Route_Selection_State._try_match: grayscale, then colour
try_match(s, key, roi, thr) ==
    Or(match_roi(s, key, thr, roi, FALSE), match_roi(s, key, thr, roi, TRUE))

\* the scan of event_priority taking the best score, not the first match
first_match_best_score(b, s, roi, thr) ==
    LET hits == {i \in 1..Len(b.event_priority) :
                    try_match(s, b.event_priority[i], roi, thr).hit}
        best == CHOOSE i \in hits : \A j \in hits :
                    try_match(s, b.event_priority[i], roi, thr).maxv
                        >= try_match(s, b.event_priority[j], roi, thr).maxv
    IN  IF hits = {} THEN [hit |-> FALSE, r |-> Miss, name |-> "", roi |-> roi]
        ELSE [hit |-> TRUE, r |-> try_match(s, b.event_priority[best], roi, thr),
              name |-> b.event_priority[best], roi |-> roi]

\* for name in b.event_priority: r = _try_match(...); if r: return r, name
first_match(b, s, roi, thr) ==
    LET hits == {i \in 1..Len(b.event_priority) :
                    try_match(s, b.event_priority[i], roi, thr).hit}
        first == CHOOSE i \in hits : \A j \in hits : i <= j
    IN  IF hits = {} THEN [hit |-> FALSE, r |-> Miss, name |-> "", roi |-> roi]
        ELSE [hit |-> TRUE, r |-> try_match(s, b.event_priority[first], roi, thr),
              name |-> b.event_priority[first], roi |-> roi]

route_left(b) == Max(5, Min(75, b.route_left_ratio))
roi1(b) == Roi("roi1", <<5, 18, route_left(b), 86>>)
roi2(b) == Roi("roi2", <<2, 12, Min(78, route_left(b) + 12), 90>>)

\* _pick trying both regions for a name before it goes on to the next name
pick_by_name(b, s) ==
    LET ep == b.event_priority
        m1(i) == try_match(s, ep[i], roi1(b), b.thr_main)
        m2(i) == try_match(s, ep[i], roi2(b), b.thr_main - 2)
        hits == {i \in 1..Len(ep) : m1(i).hit \/ m2(i).hit}
        first == CHOOSE i \in hits : \A j \in hits : i <= j
    IN  IF hits = {} THEN [hit |-> FALSE, r |-> Miss, name |-> "", roi |-> roi2(b)]
        ELSE IF m1(first).hit
        THEN [hit |-> TRUE, r |-> m1(first), name |-> ep[first], roi |-> roi1(b)]
        ELSE [hit |-> TRUE, r |-> m2(first), name |-> ep[first], roi |-> roi2(b)]

\* Route_Selection_State._pick
pick(b, s) ==
    LET pass1 == first_match(b, s, roi1(b), b.thr_main)
        pass2 == first_match(b, s, roi2(b), b.thr_main - 2)
    IN  IF pass1.hit THEN pass1 ELSE pass2

\* Route_Selection_State.run taking event_risky for a boss event too
Route_Selection_State_run_risky_as_boss(self, b, l, in) ==
    LET hb == heartbeat(self, in.t)
        s == in.scr
        title_r == match_gray(s, "title_route", Max(50, b.thr_tag - 15))
        picked == pick(b, s)
        battle_cls == IF picked.name \in {"event_boss", "event_risky"}
                      THEN "Boss_Battle" ELSE "Battle"
    IN  IF in.stop THEN Early(NoState, self, l)
        ELSE IF hb.expired
        THEN Early(Init_State(in.t), hb.st, l)
        ELSE IF ~title_r.hit
        THEN IF match_gray(s, "btn_battle_skip", b.thr_main).hit
             THEN Return(Battle_State(in.t), <<>>, hb.st, l)
             ELSE IF match_gray(s, "title_relic", b.thr_tag).hit
             THEN Return(Relic_Selection_State(in.t, <<>>), <<>>, hb.st, l)
             ELSE IF match_gray(s, "btn_route_confirm", b.thr_main).hit
             THEN Return(Route_Confirmation_State(in.t, <<>>, NoCls), <<>>, hb.st, l)
             ELSE Return(Init_State(in.t), <<>>, hb.st, l)
        ELSE IF picked.hit
        THEN Return(Route_Confirmation_State(in.t, <<>>, battle_cls),
                    <<picked.r.center>>, hb.st, l)
        ELSE Continue(<<>>, hb.st, l)

\* Route_Selection_State.run picking an event before it looks for the title
Route_Selection_State_run_pick_first(self, b, l, in) ==
    LET hb == heartbeat(self, in.t)
        s == in.scr
        title_r == match_gray(s, "title_route", Max(50, b.thr_tag - 15))
        picked == pick(b, s)
        battle_cls == IF picked.name = "event_boss" THEN "Boss_Battle" ELSE "Battle"
    IN  IF in.stop THEN Early(NoState, self, l)
        ELSE IF hb.expired
        THEN Early(Init_State(in.t), hb.st, l)
        ELSE IF picked.hit
        THEN Return(Route_Confirmation_State(in.t, <<>>, battle_cls),
                    <<picked.r.center>>, hb.st, l)
        ELSE IF ~title_r.hit
        THEN IF match_gray(s, "btn_battle_skip", b.thr_main).hit
             THEN Return(Battle_State(in.t), <<>>, hb.st, l)
             ELSE IF match_gray(s, "title_relic", b.thr_tag).hit
             THEN Return(Relic_Selection_State(in.t, <<>>), <<>>, hb.st, l)
             ELSE IF match_gray(s, "btn_route_confirm", b.thr_main).hit
             THEN Return(Route_Confirmation_State(in.t, <<>>, NoCls), <<>>, hb.st, l)
             ELSE Return(Init_State(in.t), <<>>, hb.st, l)
        ELSE Continue(<<>>, hb.st, l)

\* Route_Selection_State.run
Route_Selection_State_run(self, b, l, in) ==
    LET hb == heartbeat(self, in.t)
        s == in.scr
        title_r == match_gray(s, "title_route", Max(50, b.thr_tag - 15))
        picked == pick(b, s)
        battle_cls == IF picked.name = "event_boss" THEN "Boss_Battle" ELSE "Battle"
    IN  IF in.stop THEN Early(NoState, self, l)
        ELSE IF hb.expired
        THEN Early(Init_State(in.t), hb.st, l)
        ELSE IF ~title_r.hit
        THEN IF match_gray(s, "btn_battle_skip", b.thr_main).hit
             THEN Return(Battle_State(in.t), <<>>, hb.st, l)
             ELSE IF match_gray(s, "title_relic", b.thr_tag).hit
             THEN Return(Relic_Selection_State(in.t, <<>>), <<>>, hb.st, l)
             ELSE IF match_gray(s, "btn_route_confirm", b.thr_main).hit
             THEN Return(Route_Confirmation_State(in.t, <<>>, NoCls), <<>>, hb.st, l)
             ELSE Return(Init_State(in.t), <<>>, hb.st, l)
        ELSE IF picked.hit
        THEN Return(Route_Confirmation_State(in.t, <<>>, battle_cls),
                    <<picked.r.center>>, hb.st, l)
        ELSE Continue(<<>>, hb.st, l)

\* Route_Confirmation_State.run with the relic title leading on to Route
\* Selection: an edge the transition summary does not have
Route_Confirmation_State_run_relic_to_route(self, b, l, in) ==
    LET hb == heartbeat(self, in.t)
        s == in.scr
        ok == Or(match_color(s, "btn_route_confirm", b.thr_main),
                 match_gray(s, "btn_route_confirm", b.thr_main))
    IN  IF in.stop THEN Early(NoState, self, l)
        ELSE IF hb.expired
        THEN Early(Init_State(in.t), hb.st, l)
        ELSE IF ok.hit
        THEN Return(Construct(self.battle_cls, in.t, <<>>), <<ok.center>>, hb.st, l)
        ELSE IF match_gray(s, "btn_battle_skip", b.thr_main).hit
        THEN Return(Construct(self.battle_cls, in.t, <<>>), <<>>, hb.st, l)
        ELSE IF match_gray(s, "title_relic", b.thr_tag).hit
        THEN Return(Route_Selection_State(in.t, <<>>), <<>>, hb.st, l)
        ELSE Continue(<<>>, hb.st, l)

\* Route_Confirmation_State.run creating the standard Battle whatever kind
\* it carries
Route_Confirmation_State_run_standard_battle(self, b, l, in) ==
    LET hb == heartbeat(self, in.t)
        s == in.scr
        ok == Or(match_color(s, "btn_route_confirm", b.thr_main),
                 match_gray(s, "btn_route_confirm", b.thr_main))
    IN  IF in.stop THEN Early(NoState, self, l)
        ELSE IF hb.expired
        THEN Early(Init_State(in.t), hb.st, l)
        ELSE IF ok.hit
        THEN Return(Battle_State(in.t), <<ok.center>>, hb.st, l)
        ELSE IF match_gray(s, "btn_battle_skip", b.thr_main).hit
        THEN Return(Battle_State(in.t), <<>>, hb.st, l)
        ELSE IF match_gray(s, "title_relic", b.thr_tag).hit
        THEN Return(Relic_Selection_State(in.t, <<>>), <<>>, hb.st, l)
        ELSE Continue(<<>>, hb.st, l)

\* Route_Confirmation_State.run
Route_Confirmation_State_run(self, b, l, in) ==
    LET hb == heartbeat(self, in.t)
        s == in.scr
        ok == Or(match_color(s, "btn_route_confirm", b.thr_main),
                 match_gray(s, "btn_route_confirm", b.thr_main))
    IN  IF in.stop THEN Early(NoState, self, l)
        ELSE IF hb.expired
        THEN Early(Init_State(in.t), hb.st, l)
        ELSE IF ok.hit
        THEN Return(Construct(self.battle_cls, in.t, <<>>), <<ok.center>>, hb.st, l)
        ELSE IF match_gray(s, "btn_battle_skip", b.thr_main).hit
        THEN Return(Construct(self.battle_cls, in.t, <<>>), <<>>, hb.st, l)
        ELSE IF match_gray(s, "title_relic", b.thr_tag).hit
        THEN Return(Relic_Selection_State(in.t, <<>>), <<>>, hb.st, l)
        ELSE Continue(<<>>, hb.st, l)

ROI_SKIP == Roi("ROI_SKIP", <<78, 0, 99, 22>>)
ROI_NEXT == Roi("ROI_NEXT", <<72, 78, 99, 99>>)

\* Battle_State.SPAM_SECS, in tenths of a second
SPAM_SECS == 23

\* the burst's anchor points: SPAM_X_ANCHOR and each of SPAM_Y_ANCHORS
spam_points ==
    << <<"spam", "0.94", "0.10">>, <<"spam", "0.94", "0.112">>,
       <<"spam", "0.94", "0.113">> >>

\* Battle_State.run with a loop that does not look at the stop flag
Battle_State_run_ignoring_stop(self, b, l, in) ==
    LET hb == heartbeat(self, in.t)
        s == in.scr
        nxt == Or(match_roi(s, "btn_next", b.thr_main - 10, ROI_NEXT, FALSE),
                  match_gray(s, "btn_next", b.thr_main - 8))
        sk == Or(match_roi(s, "btn_battle_skip", Max(30, b.thr_skip_color - 8),
                           ROI_SKIP, TRUE),
              Or(match_roi(s, "btn_battle_skip", b.thr_main - 12, ROI_SKIP, FALSE),
                 match_roi(s, "btn_skip", b.thr_main - 12, ROI_SKIP, TRUE)))
    IN  IF hb.expired
        THEN Early(Init_State(in.t), hb.st, l)
        ELSE IF nxt.hit
        THEN Return(Relic_Selection_State(in.t, POST_CHAIN(self.kind)),
                    <<nxt.center>>, hb.st, l)
        ELSE IF sk.hit
        THEN Continue(<<sk.center, sk.center>>, hb.st, l)
        ELSE IF (in.t - l.t_enter) < SPAM_SECS
        THEN Continue(spam_points, hb.st, l)
        ELSE Continue(<<>>, hb.st, l)

\* Battle_State.run looking for the skip cue before the next cue
Battle_State_run_skip_first(self, b, l, in) ==
    LET hb == heartbeat(self, in.t)
        s == in.scr
        nxt == Or(match_roi(s, "btn_next", b.thr_main - 10, ROI_NEXT, FALSE),
                  match_gray(s, "btn_next", b.thr_main - 8))
        sk == Or(match_roi(s, "btn_battle_skip", Max(30, b.thr_skip_color - 8),
                           ROI_SKIP, TRUE),
              Or(match_roi(s, "btn_battle_skip", b.thr_main - 12, ROI_SKIP, FALSE),
                 match_roi(s, "btn_skip", b.thr_main - 12, ROI_SKIP, TRUE)))
    IN  IF in.stop THEN Early(NoState, self, l)
        ELSE IF hb.expired
        THEN Early(Init_State(in.t), hb.st, l)
        ELSE IF sk.hit
        THEN Continue(<<sk.center, sk.center>>, hb.st, l)
        ELSE IF nxt.hit
        THEN Return(Relic_Selection_State(in.t, POST_CHAIN(self.kind)),
                    <<nxt.center>>, hb.st, l)
        ELSE IF (in.t - l.t_enter) < SPAM_SECS
        THEN Continue(spam_points, hb.st, l)
        ELSE Continue(<<>>, hb.st, l)

\* Battle_State.run with a burst whenever no cue matches
Battle_State_run_spam_always(self, b, l, in) ==
    LET hb == heartbeat(self, in.t)
        s == in.scr
        nxt == Or(match_roi(s, "btn_next", b.thr_main - 10, ROI_NEXT, FALSE),
                  match_gray(s, "btn_next", b.thr_main - 8))
        sk == Or(match_roi(s, "btn_battle_skip", Max(30, b.thr_skip_color - 8),
                           ROI_SKIP, TRUE),
              Or(match_roi(s, "btn_battle_skip", b.thr_main - 12, ROI_SKIP, FALSE),
                 match_roi(s, "btn_skip", b.thr_main - 12, ROI_SKIP, TRUE)))
    IN  IF in.stop THEN Early(NoState, self, l)
        ELSE IF hb.expired
        THEN Early(Init_State(in.t), hb.st, l)
        ELSE IF nxt.hit
        THEN Return(Relic_Selection_State(in.t, POST_CHAIN(self.kind)),
                    <<nxt.center>>, hb.st, l)
        ELSE IF sk.hit
        THEN Continue(<<sk.center, sk.center>>, hb.st, l)
        ELSE Continue(spam_points, hb.st, l)

\* Battle_State.run (Boss_Battle_State inherits it)
Battle_State_run(self, b, l, in) ==
    LET hb == heartbeat(self, in.t)
        s == in.scr
        nxt == Or(match_roi(s, "btn_next", b.thr_main - 10, ROI_NEXT, FALSE),
                  match_gray(s, "btn_next", b.thr_main - 8))
        sk == Or(match_roi(s, "btn_battle_skip", Max(30, b.thr_skip_color - 8),
                           ROI_SKIP, TRUE),
              Or(match_roi(s, "btn_battle_skip", b.thr_main - 12, ROI_SKIP, FALSE),
                 match_roi(s, "btn_skip", b.thr_main - 12, ROI_SKIP, TRUE)))
    IN  IF in.stop THEN Early(NoState, self, l)
        ELSE IF hb.expired
        THEN Early(Init_State(in.t), hb.st, l)
        ELSE IF nxt.hit
        THEN Return(Relic_Selection_State(in.t, POST_CHAIN(self.kind)),
                    <<nxt.center>>, hb.st, l)
        ELSE IF sk.hit
        THEN Continue(<<sk.center, sk.center>>, hb.st, l)
        ELSE IF (in.t - l.t_enter) < SPAM_SECS
        THEN Continue(spam_points, hb.st, l)
        ELSE Continue(<<>>, hb.st, l)

ROI_DIAMOND == Roi("ROI_DIAMOND", <<8, 18, 92, 58>>)

\* CARD_CENTERS_REL[1], the middle card
card_middle == <<"card", "0.50", "0.62">>

\* Relic_Selection_State.CARD_CENTERS_REL[0] through _abs_from_rel
card_left == <<"card", "0.20", "0.62">>

\* the re-evaluation pause after a click, in tenths of a second
CLICK_PAUSE == 6

\* Relic_Selection_State.run without the pause after a click
Relic_Selection_State_run_no_pause(self, b, l, in) ==
    LET hb == heartbeat(self, in.t)
        s == in.scr
        hit_d == match_roi(s, "relic_diamond", Max(b.thr_tag, 70), ROI_DIAMOND, TRUE)
        l2 == [l EXCEPT !.clicked = TRUE, !.t_clicked = in.t]
    IN  IF in.stop \/ ~((in.t - l.t0) < Secs(TIMEOUT_SECS(self.kind)))
        THEN Early(Init_State(in.t), self, l)
        ELSE IF hb.expired
        THEN Early(Init_State(in.t), hb.st, l)
        ELSE IF match_gray(s, "title_route", b.thr_tag).hit
        THEN Return(Route_Selection_State(in.t, <<>>), <<>>, hb.st, l)
        ELSE IF match_gray(s, "btn_battle_skip", b.thr_main).hit
        THEN Return(Battle_State(in.t), <<>>, hb.st, l)
        ELSE IF hit_d.hit
        THEN IF self.after # <<>>
             THEN Return(next_from_chain(hb.st, in.t), <<hit_d.center>>, hb.st, l2)
             ELSE Continue(<<hit_d.center>>, hb.st, l2)
        ELSE IF self.after # <<>>
             THEN Return(next_from_chain(hb.st, in.t), <<card_left>>, hb.st, l2)
             ELSE Continue(<<card_left>>, hb.st, l2)

\* Relic_Selection_State.run with the pause tested before the two cues
Relic_Selection_State_run_pause_first(self, b, l, in) ==
    LET hb == heartbeat(self, in.t)
        s == in.scr
        hit_d == match_roi(s, "relic_diamond", Max(b.thr_tag, 70), ROI_DIAMOND, TRUE)
        l2 == [l EXCEPT !.clicked = TRUE, !.t_clicked = in.t]
    IN  IF in.stop \/ ~((in.t - l.t0) < Secs(TIMEOUT_SECS(self.kind)))
        THEN Early(Init_State(in.t), self, l)
        ELSE IF hb.expired
        THEN Early(Init_State(in.t), hb.st, l)
        ELSE IF l.clicked /\ (in.t - l.t_clicked) < CLICK_PAUSE
        THEN Continue(<<>>, hb.st, l)
        ELSE IF match_gray(s, "title_route", b.thr_tag).hit
        THEN Return(Route_Selection_State(in.t, <<>>), <<>>, hb.st, l)
        ELSE IF match_gray(s, "btn_battle_skip", b.thr_main).hit
        THEN Return(Battle_State(in.t), <<>>, hb.st, l)
        ELSE IF hit_d.hit
        THEN IF self.after # <<>>
             THEN Return(next_from_chain(hb.st, in.t), <<hit_d.center>>, hb.st, l2)
             ELSE Continue(<<hit_d.center>>, hb.st, l2)
        ELSE IF self.after # <<>>
             THEN Return(next_from_chain(hb.st, in.t), <<card_left>>, hb.st, l2)
             ELSE Continue(<<card_left>>, hb.st, l2)

\* Relic_Selection_State.run
Relic_Selection_State_run(self, b, l, in) ==
    LET hb == heartbeat(self, in.t)
        s == in.scr
        hit_d == match_roi(s, "relic_diamond", Max(b.thr_tag, 70), ROI_DIAMOND, TRUE)
        l2 == [l EXCEPT !.clicked = TRUE, !.t_clicked = in.t]
    IN  IF in.stop \/ ~((in.t - l.t0) < Secs(TIMEOUT_SECS(self.kind)))
        THEN Early(Init_State(in.t), self, l)
        ELSE IF hb.expired
        THEN Early(Init_State(in.t), hb.st, l)
        ELSE IF match_gray(s, "title_route", b.thr_tag).hit
        THEN Return(Route_Selection_State(in.t, <<>>), <<>>, hb.st, l)
        ELSE IF match_gray(s, "btn_battle_skip", b.thr_main).hit
        THEN Return(Battle_State(in.t), <<>>, hb.st, l)
        ELSE IF l.clicked /\ (in.t - l.t_clicked) < CLICK_PAUSE
        THEN Continue(<<>>, hb.st, l)
        ELSE IF hit_d.hit
        THEN IF self.after # <<>>
             THEN Return(next_from_chain(hb.st, in.t), <<hit_d.center>>, hb.st, l2)
             ELSE Continue(<<hit_d.center>>, hb.st, l2)
        ELSE IF self.after # <<>>
             THEN Return(next_from_chain(hb.st, in.t), <<card_left>>, hb.st, l2)
             ELSE Continue(<<card_left>>, hb.st, l2)

ROI_SKIP_BTN == Roi("ROI_SKIP_BTN", <<72, 82, 98, 98>>)

\* ((L + R) // 2, (T + B) // 2) of _roi_abs(ROI_SKIP_BTN)
roi_center == <<"roi_center", "ROI_SKIP_BTN", "">>

\* _BaseSkipBottomRight.run (Shop_State and Support_State inherit it)
BaseSkipBottomRight_run(self, b, l, in) ==
    LET hb == heartbeat(self, in.t)
        s == in.scr
        hit == Or(match_roi(s, "btn_shop_skip", b.thr_main, ROI_SKIP_BTN, TRUE),
                  match_roi(s, "btn_next", b.thr_main - 8, ROI_SKIP_BTN, FALSE))
    IN  IF in.stop \/ ~((in.t - l.t0) < Secs(TIMEOUT_SECS(self.kind)))
        THEN Early(next_from_chain(self, in.t), self, l)
        ELSE IF hb.expired
        THEN Early(Init_State(in.t), hb.st, l)
        ELSE IF hit.hit
        THEN Return(next_from_chain(hb.st, in.t), <<hit.center>>, hb.st, l)
        ELSE Continue(<<roi_center>>, hb.st, l)

\* the run() of the instance's class
run(self, b, l, in) ==
    CASE self.kind = "Init"          -> Init_State_run(self, b, l, in)
      [] self.kind = "Prepare"       -> Prepare_State_run(self, b, l, in)
      [] self.kind = "Route_Select"  -> Route_Selection_State_run(self, b, l, in)
      [] self.kind = "Route_Confirm" -> Route_Confirmation_State_run(self, b, l, in)
      [] self.kind \in {"Battle", "Boss_Battle"} -> Battle_State_run(self, b, l, in)
      [] self.kind = "Relic_Select"  -> Relic_Selection_State_run(self, b, l, in)
      [] self.kind \in {"Shop", "Support"} -> BaseSkipBottomRight_run(self, b, l, in)

-----------------------------------------------------------------------------
(* The screenshots an iteration may grab *)

\* scores of a visible cue template, and of a visible event template
CueScores == {80}
EventScores == Scores

Kinds == {"Init", "Prepare", "Route_Select", "Route_Confirm", "Battle",
          "Boss_Battle", "Relic_Select", "Shop", "Support"}

\* the probes each run() makes of its screenshot, the event templates aside
CueProbes(kind) ==
    CASE kind = "Init" ->
            { Probe("btn_explore", "gray", "full"),
              Probe("btn_explore_confirm", "gray", "full"),
              Probe("btn_explore_confirm", "color", "full"),
              Probe("tag_select", "gray", "full"),
              Probe("btn_next", "gray", "full"),
              Probe("title_route", "gray", "full"),
              Probe("btn_route_confirm", "gray", "full"),
              Probe("btn_battle_skip", "gray", "full"),
              Probe("title_relic", "gray", "full") }
      [] kind = "Prepare" ->
            { Probe("btn_explore", "gray", "full"),
              Probe("btn_explore", "color", "full"),
              Probe("btn_explore_confirm", "gray", "full"),
              Probe("btn_explore_confirm", "color", "full"),
              Probe("btn_explore_confirm", "color", "ROI_PREPARE"),
              Probe("title_route", "gray", "full") }
      [] kind = "Route_Select" ->
            { Probe("title_route", "gray", "full"),
              Probe("btn_battle_skip", "gray", "full"),
              Probe("title_relic", "gray", "full"),
              Probe("btn_route_confirm", "gray", "full") }
      [] kind = "Route_Confirm" ->
            { Probe("btn_route_confirm", "color", "full"),
              Probe("btn_route_confirm", "gray", "full"),
              Probe("btn_battle_skip", "gray", "full"),
              Probe("title_relic", "gray", "full") }
      [] kind \in {"Battle", "Boss_Battle"} ->
            { Probe("btn_next", "gray", "ROI_NEXT"),
              Probe("btn_next", "gray", "full"),
              Probe("btn_battle_skip", "color", "ROI_SKIP"),
              Probe("btn_battle_skip", "gray", "ROI_SKIP"),
              Probe("btn_skip", "color", "ROI_SKIP") }
      [] kind = "Relic_Select" ->
            { Probe("title_route", "gray", "full"),
              Probe("btn_battle_skip", "gray", "full"),
              Probe("relic_diamond", "color", "ROI_DIAMOND") }
      [] kind \in {"Shop", "Support"} ->
            { Probe("btn_shop_skip", "color", "ROI_SKIP_BTN"),
              Probe("btn_next", "gray", "ROI_SKIP_BTN") }

\* event templates the screenshots may show
EventKeys == {"event_boss", "event_risky", "event_shop"}

\* they show them to the grayscale probes of both passes (the colour probes
\* of _try_match, made at the same thresholds, then miss)
EventProbes == {Probe(k, "gray", r) : k \in EventKeys, r \in {"roi1", "roi2"}}

\* the screenshots on which at most n probes of P score above zero, each in V
Sparse(P, n, V) ==
    UNION {[D -> V] : D \in {X \in SUBSET P : Cardinality(X) <= n}}

Blank == [p \in {} |-> 0]

CueScreens == [k \in Kinds |-> Sparse(CueProbes(k), MaxVisible, CueScores)]

EventScreens == Sparse(EventProbes, MaxEvents, EventScores)

\* the event templates are probed by Route Selection only; a screenshot
\* shows them with the route title or, the title hidden, without any cue
EventPart(kind, g) ==
    IF kind = "Route_Select" /\ DOMAIN g \subseteq {Probe("title_route", "gray", "full")}
    THEN EventScreens ELSE {Blank}

-----------------------------------------------------------------------------
(* MazeBot's lifecycle and the loop thread *)

NoLoc == [clicked_explore |-> FALSE, t_enter |-> 0, clicked |-> FALSE,
          t_clicked |-> 0, t0 |-> 0]

\* the statements of run() before its loop: the locals they set
run_entry(kind, t) ==
    CASE kind \in {"Battle", "Boss_Battle"} -> [NoLoc EXCEPT !.t_enter = t]
      [] kind \in {"Relic_Select", "Shop", "Support"} -> [NoLoc EXCEPT !.t0 = t]
      [] OTHER -> NoLoc

\* no call of the Match Engine under study
NoCall == [in |-> <<>>, res |-> <<>>]

\* MainWindow.__init__: not running, no bot, no thread, no request in hand
NoGui ==
    [running |-> FALSE, bot |-> 0, bots |-> <<>>, threads |-> <<>>,
     ctl |-> [c \in {"button", "hotkey"} |-> "idle"]]

\* what the last iteration did: the kind that ran, whether it reached
\* b._grab(), its clicks, what run() returned, and the instance's beat count
NoOut == [by |-> "None", grabbed |-> FALSE, clicks |-> <<>>, ret |-> "-",
          beat |-> 0]

Init ==
    /\ now = Epoch
    /\ cfg \in Cfgs
    /\ params = update_runtime_params(cfg)
    /\ stop = FALSE
    /\ cur = NoState
    /\ pc = "new"
    /\ loc = NoLoc
    /\ scr = Blank
    /\ out = NoOut
    /\ gui = NoGui
    /\ call = NoCall

\* MazeBot.start
Start ==
    /\ pc = "new"
    /\ stop' = FALSE
    /\ params' = update_runtime_params(cfg)
    /\ cur' = Init_State(now)
    /\ pc' = "started"
    /\ UNCHANGED <<now, cfg, loc, scr, out>>
    /\ UNCHANGED others

\* MazeBot.loop up to its while loop
LoopEnter ==
    /\ pc \in {"new", "started"}
    /\ params' = update_runtime_params(cfg)
    /\ IF cur = NoState
       THEN stop' = FALSE /\ cur' = Init_State(now)
       ELSE UNCHANGED <<stop, cur>>
    /\ pc' = "loop"
    /\ UNCHANGED <<now, cfg, loc, scr, out>>
    /\ UNCHANGED others

\* while not self._stop: nxt = self._current_state.run() ... (the call)
LoopTop ==
    /\ pc = "loop"
    /\ IF stop
       THEN pc' = "done" /\ UNCHANGED <<now, loc>>
       ELSE \E d \in Deltas :
                /\ now + d <= MaxTime
                /\ now' = now + d
                /\ loc' = run_entry(cur.kind, now + d)
                /\ pc' = "run"
    /\ UNCHANGED <<cfg, params, stop, cur, scr, out>>
    /\ UNCHANGED others

\* a loop that assigns whatever run() returned, None included
loop_assign_any(r) == IF r.done THEN r.ret ELSE r.self

\* nxt = self._current_state.run(); if nxt is not None: self._current_state
\* = nxt  (r.self is the instance that ran, with its heartbeat fields)
loop_assign(r) == IF r.done /\ r.ret # NoState THEN r.ret ELSE r.self

\* one iteration of the inner loop of the current state's run(), and, when
\* run() returns, MazeBot.loop's assignment of the value returned
Iterate ==
    /\ pc = "run"
    /\ \E d \in Deltas :
       \E g \in (IF stop THEN {Blank} ELSE CueScreens[cur.kind]) :
       \E e \in (IF stop THEN {Blank} ELSE EventPart(cur.kind, g)) :
       \E r \in {run(cur, params, loc, [stop |-> stop, scr |-> g @@ e, t |-> now + d])} :
          LET in == [stop |-> stop, scr |-> g @@ e, t |-> now + d]
          IN  /\ in.t <= MaxTime
              /\ now' = in.t
              /\ scr' = IF r.grabbed THEN in.scr ELSE Blank
              /\ out' = [by |-> cur.kind, grabbed |-> r.grabbed,
                         clicks |-> r.clicks,
                         ret |-> IF ~r.done THEN "-"
                                 ELSE IF r.ret = NoState THEN "None" ELSE "State",
                         beat |-> r.self.beat]
              /\ cur' = loop_assign(r)
              /\ loc' = IF r.done THEN NoLoc ELSE r.loc
              /\ pc' = IF r.done THEN "loop" ELSE "run"
    /\ UNCHANGED <<cfg, params, stop>>
    /\ UNCHANGED others

\* MazeBot.stop
Stop ==
    /\ pc \in {"started", "loop", "run"}
    /\ ~stop
    /\ stop' = TRUE
    /\ UNCHANGED <<now, cfg, params, cur, pc, loc, scr, out>>
    /\ UNCHANGED others

\* the control surface changes a value its parameter provider returns
SetCfg ==
    /\ pc # "done"
    /\ cfg' \in Cfgs \ {cfg}
    /\ UNCHANGED <<now, params, stop, cur, pc, loc, scr, out>>
    /\ UNCHANGED others

Next == Start \/ LoopEnter \/ LoopTop \/ Iterate \/ Stop \/ SetCfg

Spec == Init /\ [][Next]_vars

TypeOK ==
    /\ now \in Epoch..MaxTime
    /\ cur.kind \in Kinds \cup {"None"}
    /\ pc \in {"new", "started", "loop", "run", "done", "raised"}

-----------------------------------------------------------------------------
(* The steps of the loop thread, as the properties below read them *)

\* an iteration of the current state's run(): the step taken at "run" that
\* leaves the stop flag and the provider's values alone
Iterating == pc = "run" /\ stop' = stop /\ cfg' = cfg

\* the iteration in which run() returns a state instance to MazeBot.loop
Returning == Iterating /\ pc' = "loop" /\ out'.ret = "State"

-----------------------------------------------------------------------------
(* C1 *)

\* the transition summary: the kinds a state of each kind may hand over to
TransitionSummary(self) ==
    CASE self.kind = "Init" ->
            {"Prepare", "Route_Select", "Route_Confirm", "Battle", "Relic_Select"}
      [] self.kind = "Prepare" -> {"Route_Select", "Init"}
      [] self.kind = "Route_Select" ->
            {"Route_Confirm", "Battle", "Relic_Select", "Init"}
      [] self.kind = "Route_Confirm" ->
            {"Battle", "Boss_Battle", "Relic_Select", "Init"}
      [] self.kind \in {"Battle", "Boss_Battle"} -> {"Relic_Select", "Init"}
      [] self.kind = "Relic_Select" ->
            (IF self.after # <<>> THEN {Head(self.after)} ELSE {})
                \cup {"Route_Select", "Battle", "Init"}
      [] OTHER -> Kinds

\* C1: whatever the screenshots and clock readings, every state change made
\* by a step of Triage, Preparation, Route Selection, Route Confirmation,
\* Battle, Boss-Battle or Relic Selection is an edge of the transition
\* summary; no other edge is taken.
C1_OnlySummaryEdges ==
    [][Returning => cur'.kind \in TransitionSummary(cur)]_vars

\* Relic Selection has handed over to the head of a boss chain
C1_Witness ==
    /\ out.by = "Relic_Select" /\ out.ret = "State"
    /\ cur.kind = "Shop" /\ cur.after = <<"Support", "Route_Select">>

-----------------------------------------------------------------------------
(* C2 *)

\* C2: every exit of a Shop or Support state, the loop being stopped aside,
\* hands control to the head of its continuation chain constructed with the
\* remaining chain (Route Selection when the chain is empty), both when the
\* leave/next cue is found and when the timeout elapses; Shop/Support never
\* hands over to Triage, whatever the time between the state's construction
\* and the start of its step.
C2_ShopSupportAlwaysChain ==
    [][(Iterating /\ ~stop /\ cur.kind \in {"Shop", "Support"} /\ pc' = "loop")
         => /\ out'.ret = "State"
            /\ cur'.kind # "Init"
            /\ cur'.kind = (IF cur.after # <<>> THEN Head(cur.after)
                                               ELSE "Route_Select")
            /\ cur'.after = (IF cur.after # <<>> THEN Tail(cur.after) ELSE <<>>)]_vars

-----------------------------------------------------------------------------
(* C3 *)

\* the best score a screenshot gives a template inside a region
BestIn(s, key, region) ==
    Max(Score(s, Probe(key, "gray", region)), Score(s, Probe(key, "color", region)))

\* the positions of event_priority whose template matches inside a region
MatchedIn(b, s, region, thr) ==
    {i \in 1..Len(b.event_priority) : BestIn(s, b.event_priority[i], region) >= thr}

\* the route title shows on a screenshot
RouteTitleShows(b, s) ==
    Score(s, Probe("title_route", "gray", "full")) >= Max(50, b.thr_tag - 15)

\* C3: in Route Selection, when two or more templates of event_priority all
\* match inside the active left-hand region at the main threshold, the event
\* clicked is the one earliest in event_priority, whatever the match scores
\* (a later name with a strictly higher score is never chosen).
C3_PriorityIsStrict ==
    (/\ out.by = "Route_Select" /\ out.grabbed
     /\ RouteTitleShows(params, scr)
     /\ Cardinality(MatchedIn(params, scr, "roi1", params.thr_main)) >= 2)
    => /\ Len(out.clicks) = 1
       /\ \E i \in MatchedIn(params, scr, "roi1", params.thr_main) :
            /\ \A j \in MatchedIn(params, scr, "roi1", params.thr_main) : i <= j
            /\ out.clicks[1][1] = params.event_priority[i]
            /\ out.clicks[1][3] = "roi1"

\* the earlier name was clicked although a later one scored strictly higher
C3_Witness ==
    /\ out.by = "Route_Select" /\ out.grabbed /\ Len(out.clicks) = 1
    /\ \E i, j \in MatchedIn(params, scr, "roi1", params.thr_main) :
            /\ i < j
            /\ BestIn(scr, params.event_priority[j], "roi1")
                  > BestIn(scr, params.event_priority[i], "roi1")
            /\ out.clicks[1][1] = params.event_priority[i]

-----------------------------------------------------------------------------
(* C4 *)

\* C4: when Route Selection picks event_boss, Route Confirmation is created
\* carrying the Boss-Battle kind; its confirm click, or a directly visible
\* battle-skip cue, creates a Boss-Battle state; and when that Boss-Battle
\* finds the next cue it creates Relic Selection with the continuation chain
\* exactly [Shop, Support, Route Selection].
C4_BossContextCarried ==
    [][/\ (/\ Returning /\ cur.kind = "Route_Select"
            /\ Len(out'.clicks) = 1 /\ out'.clicks[1][1] = "event_boss")
           => cur'.kind = "Route_Confirm" /\ cur'.battle_cls = "Boss_Battle"
       /\ (/\ Returning /\ cur.kind = "Route_Confirm"
            /\ cur.battle_cls = "Boss_Battle" /\ out'.grabbed
            /\ \/ out'.clicks # <<>>
               \/ Score(scr', Probe("btn_battle_skip", "gray", "full"))
                      >= params.thr_main)
           => cur'.kind = "Boss_Battle"
       /\ (/\ Returning /\ cur.kind = "Boss_Battle" /\ out'.grabbed
            /\ Len(out'.clicks) = 1 /\ out'.clicks[1][1] = "btn_next")
           => /\ cur'.kind = "Relic_Select"
              /\ cur'.after = <<"Shop", "Support", "Route_Select">>]_vars

\* a Boss-Battle found the next cue and handed over to Relic Selection
C4_Witness ==
    /\ out.by = "Boss_Battle" /\ out.ret = "State" /\ out.clicks # <<>>
    /\ cur.kind = "Relic_Select"
    /\ cur.after = <<"Shop", "Support", "Route_Select">>

-----------------------------------------------------------------------------
(* C5 *)

\* the position in event_priority of the event Route Selection is to pick on
\* a screenshot: the earliest match of the first pass, else of the second
Winners(b, s) ==
    LET p1 == MatchedIn(b, s, "roi1", b.thr_main)
        p2 == MatchedIn(b, s, "roi2", b.thr_main - 2)
        m == IF p1 # {} THEN p1 ELSE p2
    IN  {i \in m : \A j \in m : i <= j}

\* C5: when Route Selection picks an event whose name is not event_boss, it
\* clicks that event's match centre and hands over to Route Confirmation
\* carrying the standard Battle kind; the Relic Selection later created by
\* that standard Battle carries the chain exactly [Route Selection].
C5_StandardContextCarried ==
    [][/\ (/\ Iterating /\ ~stop /\ cur.kind = "Route_Select" /\ out'.grabbed
            /\ RouteTitleShows(params, scr'))
           => \A i \in Winners(params, scr') :
                 params.event_priority[i] # "event_boss"
                 => /\ out'.ret = "State"
                    /\ cur'.kind = "Route_Confirm" /\ cur'.battle_cls = "Battle"
                    /\ Len(out'.clicks) = 1
                    /\ out'.clicks[1] \in DOMAIN scr'
                    /\ out'.clicks[1][1] = params.event_priority[i]
       /\ (Returning /\ cur.kind = "Battle" /\ out'.grabbed)
           => /\ cur'.kind = "Relic_Select"
              /\ cur'.after = <<"Route_Select">>]_vars

\* event_risky was picked over a matching event_shop
C5_Witness ==
    /\ out.by = "Route_Select" /\ out.ret = "State"
    /\ Len(out.clicks) = 1 /\ out.clicks[1][1] = "event_risky"
    /\ BestIn(scr, "event_shop", out.clicks[1][3]) >= params.thr_main
    /\ cur.kind = "Route_Confirm" /\ cur.battle_cls = "Battle"

-----------------------------------------------------------------------------
(* C6 *)

\* an iteration in which run() returns self.next_from_chain(): Relic
\* Selection after its click; Shop/Support on the cue, and when their loop
\* ends by its own timeout or by the stop flag
Popping ==
    /\ Returning
    /\ \/ cur.kind = "Relic_Select" /\ out'.grabbed /\ out'.clicks # <<>>
       \/ /\ cur.kind \in {"Shop", "Support"}
          /\ \/ stop
             \/ ~((now' - loc.t0) < 100)
             \/ out'.grabbed

\* C6: popping a continuation chain constructs the kind at the head of the
\* chain and gives it the remaining elements, in the same order, as its own
\* chain; an empty chain yields Route Selection.  So, every chained state
\* completing through its chain, the states after a boss victory are visited
\* in the order Relic Selection, Shop, Support, Route Selection, the chain
\* one shorter at each step.
C6_ChainPop ==
    [][Popping =>
         /\ IF cur.after # <<>>
            THEN /\ cur'.kind = cur.after[1]
                 /\ Len(cur'.after) = Len(cur.after) - 1
                 /\ \A i \in 1..Len(cur'.after) : cur'.after[i] = cur.after[i + 1]
            ELSE cur'.kind = "Route_Select" /\ cur'.after = <<>>
         /\ \A k \in Kinds :
               LET nxt == next_from_chain(State_Base(k, <<>>, now), now')
               IN  nxt.kind = "Route_Select" /\ nxt.after = <<>>
         /\ (cur.kind = "Relic_Select"
                /\ cur.after = <<"Shop", "Support", "Route_Select">>)
              => cur'.kind = "Shop" /\ cur'.after = <<"Support", "Route_Select">>
         /\ (cur.kind = "Shop" /\ cur.after = <<"Support", "Route_Select">>)
              => cur'.kind = "Support" /\ cur'.after = <<"Route_Select">>
         /\ (cur.kind = "Support" /\ cur.after = <<"Route_Select">>)
              => cur'.kind = "Route_Select" /\ cur'.after = <<>>]_vars

\* the last state of a boss chain was popped: Support has handed over to
\* Route Selection on its cue
C6_Witness ==
    /\ out.by = "Support" /\ out.ret = "State" /\ out.clicks # <<>>
    /\ cur.kind = "Route_Select" /\ cur.after = <<>>

-----------------------------------------------------------------------------
(* C7 *)

\* an iteration of a Relic Selection entered with an empty chain
RelicNoChain == Iterating /\ cur.kind = "Relic_Select" /\ cur.after = <<>>

RouteTitleReturns(b, s) ==
    Score(s, Probe("title_route", "gray", "full")) >= b.thr_tag

BattleSkipReturns(b, s) ==
    Score(s, Probe("btn_battle_skip", "gray", "full")) >= b.thr_main

\* the diamond marker does not match on a screenshot
NoDiamond(b, s) ==
    Score(s, Probe("relic_diamond", "color", "ROI_DIAMOND")) < Max(b.thr_tag, 70)

\* on a screenshot without the cues and the marker, the iteration clicks the
\* leftmost card position and run() goes on
RelicClicksLeftCard ==
    (/\ RelicNoChain /\ out'.grabbed
     /\ ~RouteTitleReturns(params, scr') /\ ~BattleSkipReturns(params, scr')
     /\ NoDiamond(params, scr')
     /\ ~(loc.clicked /\ (now' - loc.t_clicked) < 6))
    => /\ out'.clicks = << <<"card", "0.20", "0.62">> >>
       /\ pc' = "run" /\ cur'.kind = "Relic_Select"

\* C7, as the spec has it: a Relic Selection entered with an empty chain, on
\* screens where the diamond marker never matches, clicks the leftmost fixed
\* card position and does not hand over to any other state until the route
\* title or the battle-skip cue matches.
C7_RelicLeavesOnlyOnCue ==
    [][/\ RelicClicksLeftCard
       /\ (RelicNoChain /\ cur' # cur /\ cur'.kind # "Relic_Select")
           => /\ out'.grabbed
              /\ RouteTitleReturns(params, scr') \/ BattleSkipReturns(params, scr')]_vars

\* C7, amended: such a Relic Selection clicks the leftmost fixed card
\* position, and hands over to another state only when the route title
\* matches (Route Selection), the battle-skip cue matches (Battle), or, with
\* no screenshot taken, when its 15 s timeout has elapsed or the loop is
\* being stopped (Triage in both cases).
C7_RelicLeavesOnCueOrTimeout ==
    [][/\ RelicClicksLeftCard
       /\ (RelicNoChain /\ pc' = "loop")
           => /\ out'.ret = "State"
              /\ IF out'.grabbed
                 THEN \/ RouteTitleReturns(params, scr') /\ cur'.kind = "Route_Select"
                      \/ BattleSkipReturns(params, scr') /\ cur'.kind = "Battle"
                 ELSE /\ cur'.kind = "Init" /\ out'.clicks = <<>>
                      /\ \/ stop
                         \/ (now' - loc.t0) >= 150
                         \/ (now' - cur.t0) > 150]_vars

\* a Relic Selection with an empty chain has clicked the leftmost card on a
\* screenshot without the marker, and goes on
C7_Witness ==
    /\ pc = "run" /\ cur.kind = "Relic_Select" /\ cur.after = <<>>
    /\ out.by = "Relic_Select" /\ out.grabbed
    /\ NoDiamond(params, scr)
    /\ out.clicks = << <<"card", "0.20", "0.62">> >>

-----------------------------------------------------------------------------
(* C8 *)

\* an iteration that calls self.heartbeat(): the loop condition held
HeartbeatCalled ==
    /\ Iterating /\ ~stop
    /\ cur.kind \in {"Relic_Select", "Shop", "Support"}
         => (now' - loc.t0) < Secs(TIMEOUT_SECS(cur.kind))

\* C8: right after a state instance is constructed heartbeat() returns
\* false, and it returns true on every call made once the time elapsed since
\* construction exceeds the kind's TIMEOUT_SECS; the result depends on the
\* construction time and the current time only, not on the calls made in
\* between (heartbeat never moves the start timestamp).  An iteration goes
\* on to grab a screenshot exactly when heartbeat() returned false.
C8_HeartbeatFromConstruction ==
    [][HeartbeatCalled
         => /\ out'.grabbed = ~((now' - cur.t0) > 10 * TIMEOUT_SECS(cur.kind))
            /\ (now' = cur.t0) => out'.grabbed
            /\ (pc' = "run") => cur'.kind = cur.kind /\ cur'.t0 = cur.t0]_vars

\* a Battle instance whose heartbeat had been called several times before
\* reported the timeout
C8_Witness ==
    /\ out.by = "Battle" /\ ~out.grabbed /\ out.ret = "State" /\ ~stop
    /\ out.beat >= 3

-----------------------------------------------------------------------------
(* C9 *)

\* an iteration made once the watchdog timeout of the instance has elapsed
TimedOut ==
    /\ Iterating /\ ~stop
    /\ cur.kind \in {"Init", "Prepare", "Route_Select", "Route_Confirm",
                      "Battle", "Boss_Battle", "Relic_Select"}
    /\ (now' - cur.t0) > 10 * TIMEOUT_SECS(cur.kind)

\* C9: on watchdog timeout Triage hands over to Route Selection, never to a
\* new Triage; Preparation, Route Selection, Route Confirmation, Battle,
\* Boss-Battle and Relic Selection each hand over to Triage.  The check is
\* made before any capture or match of the iteration: in the iteration where
\* the timeout has elapsed no screenshot is taken, no click is issued, and
\* the timeout destination wins whatever cue is visible.
C9_TimeoutDestinations ==
    [][TimedOut
         => /\ pc' = "loop" /\ out'.ret = "State"
            /\ cur'.kind = (IF cur.kind = "Init" THEN "Route_Select" ELSE "Init")
            /\ cur'.t0 = now'
            /\ ~out'.grabbed /\ out'.clicks = <<>>]_vars

\* Triage timed out and handed over to Route Selection
C9_Witness ==
    /\ out.by = "Init" /\ ~out.grabbed /\ out.ret = "State" /\ ~stop
    /\ cur.kind = "Route_Select"

-----------------------------------------------------------------------------
(* C10 *)

\* C10: the run parameters are re-read from the provider at bot start and at
\* the top of every iteration of the run loop, so a value the provider
\* changes while loop() is running is in use within one iteration.
C10_ParamsReadEveryIteration ==
    [][/\ (pc = "new" /\ pc' = "started") => params' = update_runtime_params(cfg)
       /\ (pc = "loop" /\ pc' = "run") => params' = update_runtime_params(cfg)]_vars

-----------------------------------------------------------------------------
(* The parameter refresh on its own: every value the provider can hold for *)
(* event_priority, and MazeBot._update_runtime_params applied to it        *)

\* longest provider string, in pieces, and longest provider list, in items
MaxPieces == 3
MaxItems == 2

\* the pieces a provider string is made of
Pieces == {"event_boss", "event_shop", ",", " "}

RECURSIVE SeqsUpTo(_, _)
SeqsUpTo(S, n) ==
    IF n = 0 THEN {<<>>}
    ELSE LET shorter == SeqsUpTo(S, n - 1)
         IN  shorter \cup {Append(q, x) : q \in shorter, x \in S}

\* the items a provider list is made of, each a string in pieces
Items == {<<>>, <<" ">>, <<"event_boss">>, <<" ", "event_shop">>}

\* a value of a type that is neither str nor list (None, a number)
Other == [t |-> "other", v |-> <<>>]

\* the values p.get("event_priority", ...) may find
PriorityValues ==
    {Str(q) : q \in SeqsUpTo(Pieces, MaxPieces)}
        \cup {List(q) : q \in SeqsUpTo(Items, MaxItems)}
        \cup {Other}

\* the provider's mappings: event_priority absent, or one of the values
PriorityCfgs ==
    {[k \in {} |-> 0]} \cup {[k \in {"event_priority"} |-> v] : v \in PriorityValues}

\* MazeBot.__init__ with such a provider
InitParams ==
    /\ now = Epoch
    /\ cfg \in PriorityCfgs
    /\ params = update_runtime_params(cfg)
    /\ stop = FALSE
    /\ cur = NoState
    /\ pc = "new"
    /\ loc = NoLoc
    /\ scr = Blank
    /\ out = NoOut
    /\ gui = NoGui
    /\ call = NoCall

\* the control surface stores another priority value
SavePriority ==
    /\ cfg' \in PriorityCfgs \ {cfg}
    /\ UNCHANGED <<now, params, stop, cur, pc, loc, scr, out>>
    /\ UNCHANGED others

\* a call of MazeBot._update_runtime_params
Refresh ==
    /\ params' = update_runtime_params(cfg)
    /\ UNCHANGED <<now, cfg, stop, cur, pc, loc, scr, out>>
    /\ UNCHANGED others

NextParams == SavePriority \/ Refresh

SpecParams == InitParams /\ [][NextParams]_vars

-----------------------------------------------------------------------------
(* C11 *)

\* C11: after every parameter refresh, whatever the provider returns for
\* event_priority (absent, a string, the empty string or only commas and
\* blanks included, a list, the empty list included, or another type), the
\* bot's event_priority list is non-empty.
C11_PriorityNeverEmpty == Len(params.event_priority) >= 1

-----------------------------------------------------------------------------
(* C12 *)

\* the loop thread keeps being scheduled, and each capture, match and click
\* call returns: a step of the thread that stays possible is taken
\* (assumed here of the steps taken with the stop flag set only)
SpecLive ==
    Init /\ [][Next]_vars
         /\ WF_vars(stop /\ LoopEnter)
         /\ WF_vars(stop /\ LoopTop)
         /\ WF_vars(stop /\ Iterate)

\* C12: once stop() has set the stop flag, no start() following, loop()
\* eventually returns, whatever kind the current state has; an iteration
\* that starts after the flag was set begins no capture, match or click; an
\* iteration begun before is one step and runs to its end.
C12_StopHaltsAtIterationBoundary ==
    /\ [][(Iterating /\ stop)
            => /\ ~out'.grabbed /\ out'.clicks = <<>> /\ scr' = Blank
               /\ pc' = "loop"]_vars
    /\ [][pc = "done" => pc' = "done" /\ stop']_vars
    /\ (stop ~> (pc = "done"))

\* loop() has returned after an iteration that found the flag set
C12_Witness ==
    /\ pc = "done" /\ stop
    /\ out.by \in Kinds /\ ~out.grabbed /\ out.clicks = <<>>

-----------------------------------------------------------------------------
(* The control surface (bot_fluent.py).  Start and stop requests arrive on *)
(* the Qt thread (buttons) and on the keyboard listener's thread (hotkey   *)
(* callbacks); each _start_bot makes a MazeBot and a loop thread.  A loop  *)
(* thread is at the top of an iteration ("top"), inside a state step that  *)
(* captures and clicks ("step"), or over.                                  *)

\* number of bots _start_bot may make
MaxBots == 2

Contexts == {"button", "hotkey"}

\* the loop threads there are
Threads == {k \in 1..MaxBots : k <= Len(gui.threads)}

\* if self._running: return  ... else on to self._start_bot()
on_click_start(c) ==
    /\ gui.ctl[c] = "idle"
    /\ ~gui.running
    /\ Len(gui.bots) + Cardinality({d \in Contexts : gui.ctl[d] = "start_bot"})
          < MaxBots
    /\ gui' = [gui EXCEPT !.ctl[c] = "start_bot"]
    /\ UNCHANGED <<core, call>>

\* self.bot = MazeBot(...); self.bot.start()
start_bot_create(c) ==
    /\ gui.ctl[c] = "start_bot"
    /\ gui' = [gui EXCEPT !.bots = Append(@, [stop |-> FALSE]),
                          !.bot = Len(gui.bots) + 1,
                          !.ctl[c] = "created"]
    /\ UNCHANGED <<core, call>>

\* self.bot_thread = threading.Thread(target=self._run_loop_once); .start()
start_bot_spawn(c) ==
    /\ gui.ctl[c] = "created"
    /\ gui' = [gui EXCEPT !.threads = Append(@, [bot |-> 0, st |-> "born"]),
                          !.ctl[c] = "spawned"]
    /\ UNCHANGED <<core, call>>

\* self._running = True
start_bot_mark(c) ==
    /\ gui.ctl[c] = "spawned"
    /\ gui' = [gui EXCEPT !.running = TRUE, !.ctl[c] = "idle"]
    /\ UNCHANGED <<core, call>>

\* if not self._running: return  ... else on to self.bot.stop()
on_click_stop(c) ==
    /\ gui.ctl[c] = "idle"
    /\ gui.running
    /\ gui' = [gui EXCEPT !.ctl[c] = "stopping"]
    /\ UNCHANGED <<core, call>>

\* if self.bot: self.bot.stop()
stop_call(c) ==
    /\ gui.ctl[c] = "stopping"
    /\ gui' = [gui EXCEPT !.bots = IF gui.bot = 0 THEN @
                                   ELSE [@ EXCEPT ![gui.bot].stop = TRUE],
                          !.ctl[c] = "stopped"]
    /\ UNCHANGED <<core, call>>

\* self._running = False
stop_mark(c) ==
    /\ gui.ctl[c] = "stopped"
    /\ gui' = [gui EXCEPT !.running = FALSE, !.ctl[c] = "idle"]
    /\ UNCHANGED <<core, call>>

\* _run_loop_once: self.bot.loop() is entered on the bot self.bot names now
run_loop_once(k) ==
    /\ k \in Threads
    /\ gui.threads[k].st = "born"
    /\ gui' = [gui EXCEPT !.threads[k] = [bot |-> gui.bot, st |-> "top"]]
    /\ UNCHANGED <<core, call>>

\* while not self._stop: the test, here and in the state's run()
loop_test(k) ==
    /\ k \in Threads
    /\ gui.threads[k].st = "top"
    /\ gui' = [gui EXCEPT !.threads[k].st =
                   IF gui.bots[gui.threads[k].bot].stop THEN "returned" ELSE "step"]
    /\ UNCHANGED <<core, call>>

\* the capture, match and click of one iteration come to their end
step_done(k) ==
    /\ k \in Threads
    /\ gui.threads[k].st = "step"
    /\ gui' = [gui EXCEPT !.threads[k].st = "top"]
    /\ UNCHANGED <<core, call>>

\* a call of the iteration raises; the exception leaves loop()
step_raises(k) ==
    /\ k \in Threads
    /\ gui.threads[k].st = "step"
    /\ gui' = [gui EXCEPT !.threads[k].st = "raising"]
    /\ UNCHANGED <<core, call>>

\* except Exception: self.log(...); self._running = False
run_loop_once_except(k) ==
    /\ k \in Threads
    /\ gui.threads[k].st = "raising"
    /\ gui' = [gui EXCEPT !.running = FALSE, !.threads[k].st = "raised"]
    /\ UNCHANGED <<core, call>>

InitGui == Init /\ cfg = CfgA

NextGui ==
    \/ \E c \in Contexts :
          \/ on_click_start(c) \/ start_bot_create(c) \/ start_bot_spawn(c)
          \/ start_bot_mark(c)
          \/ on_click_stop(c) \/ stop_call(c) \/ stop_mark(c)
    \/ \E k \in 1..MaxBots :
          \/ run_loop_once(k) \/ loop_test(k) \/ step_done(k)
          \/ step_raises(k) \/ run_loop_once_except(k)

SpecGui == InitGui /\ [][NextGui]_vars

-----------------------------------------------------------------------------
(* C13 *)

\* the loop threads inside a state step
Stepping == {k \in Threads : gui.threads[k].st = "step"}

\* C13: under every interleaving of the start and stop requests of the
\* control surface (buttons and hotkey callbacks) with the loop thread, at
\* most one loop thread is executing a state step at any time: a start
\* request while a loop is running makes no second loop, and a start after
\* a stop does not overlap the last iteration of the loop before.
C13_SingleLoopThread == Cardinality(Stepping) <= 1

-----------------------------------------------------------------------------
(* C14 *)

\* no request is in hand and every loop thread is over
Quiet ==
    /\ \A c \in Contexts : gui.ctl[c] = "idle"
    /\ \A k \in Threads : gui.threads[k].st \in {"returned", "raised"}

\* C14: if a state's step raises, the exception leaves loop() and the loop
\* thread ends; for every interleaving of the loop thread with _start_bot
\* the control surface ends with its running flag false, so that a later
\* start request is accepted.
C14_RaiseResetsRunning ==
    (Quiet /\ Len(gui.threads) = 1 /\ gui.threads[1].st = "raised")
        => ~gui.running

-----------------------------------------------------------------------------
(* The Match Engine on pixels.  The window rectangle is bbox; a screenshot *)
(* has its width and height.  For one template, corr gives the correlation *)
(* score of the template placed with its top-left corner at <<x, y>> of    *)
(* the screenshot; matching a sub-image sees the placements inside it.     *)

\* a templates directory: file name -> what cv2.imread makes of the file
\* (readable or not, and the picture's size); NoDir when it does not exist
NoDir == [exists |-> FALSE, files |-> <<>>]
Dir(files) == [exists |-> TRUE, files |-> files]
File(stem, ext) == [stem |-> stem, ext |-> ext]
Picture(w, h) == [readable |-> TRUE, w |-> w, h |-> h]
Unreadable == [readable |-> FALSE, w |-> 0, h |-> 0]

\* fn.lower()
Lower(ext) == IF ext = ".PNG" THEN ".png" ELSE ext

\* MazeBot._load_templates: every readable *.png enters both caches under
\* its name without the extension
load_templates(dir) ==
    LET good == {f \in DOMAIN dir.files :
                    Lower(f.ext) = ".png" /\ dir.files[f].readable}
        keys == {f.stem : f \in good}
        size(k) == LET f == CHOOSE g \in good : g.stem = k
                   IN  [w |-> dir.files[f].w, h |-> dir.files[f].h]
    IN  IF ~dir.exists THEN [color |-> <<>>, gray |-> <<>>]
        ELSE [color |-> [k \in keys |-> size(k)],
              gray |-> [k \in keys |-> size(k)]]

\* largest window width and height, in pixels
MaxW == 3
MaxH == 2

\* _roi_abs scaling the right and bottom edges by width - 1 and height - 1
roi_abs_inner(bb, roi) ==
    << bb.left + ((bb.width * clamp01(roi[1])) \div 100),
       bb.top + ((bb.height * clamp01(roi[2])) \div 100),
       bb.left + (((bb.width - 1) * clamp01(roi[3])) \div 100),
       bb.top + (((bb.height - 1) * clamp01(roi[4])) \div 100) >>

\* MazeBot._roi_abs: fractions (hundredths) to absolute pixels <<L, T, R, B>>
roi_abs(bb, roi) ==
    << bb.left + ((bb.width * clamp01(roi[1])) \div 100),
       bb.top + ((bb.height * clamp01(roi[2])) \div 100),
       bb.left + ((bb.width * clamp01(roi[3])) \div 100),
       bb.top + ((bb.height * clamp01(roi[4])) \div 100) >>

\* the placements of a w x h template inside columns x0..x1-1, rows y0..y1-1
Placements(x0, y0, x1, y1, w, h) ==
    {p \in (x0..(x1 - w)) \X (y0..(y1 - h)) : TRUE}

\* the score at a placement; where the screenshot shows nothing like the
\* template it is 0
Corr(corr, p) == Get(corr, p, 0)

\* cv2.minMaxLoc: the first placement, row by row, of the best score
BestPlacement(corr, P) ==
    CHOOSE p \in P :
        /\ \A q \in P : Corr(corr, q) <= Corr(corr, p)
        /\ \A q \in P : Corr(corr, q) = Corr(corr, p)
              => (p[2] < q[2] \/ (p[2] = q[2] /\ p[1] <= q[1]))

None == [kind |-> "none"]
Raised == [kind |-> "raise"]

\* MatchResult(key, maxv, tl_abs, br_abs, center)
MatchResult(key, maxv, tl, w, h) ==
    [kind |-> "hit", key |-> key, maxv |-> maxv, tl |-> tl,
     br |-> <<tl[1] + w, tl[2] + h>>,
     center |-> <<tl[1] + (w \div 2), tl[2] + (h \div 2)>>]

\* _match_single taking only a score above the threshold for a match
match_single_px_strict(in, tpl, x0, y0, x1, y1, ox, oy) ==
    LET P == Placements(x0, y0, x1, y1, tpl.w, tpl.h)
        best == BestPlacement(in.corr, P)
    IN  IF P = {} THEN Raised
        ELSE IF Corr(in.corr, best) > in.thr
        THEN MatchResult(in.key, Corr(in.corr, best),
                         <<ox + (best[1] - x0), oy + (best[2] - y0)>>,
                         tpl.w, tpl.h)
        ELSE None

\* _match_single on the sub-image x0..x1-1, y0..y1-1 and the MatchResult
\* built from (maxv, maxl) with the origin <<ox, oy>>; cv2.matchTemplate
\* raises when the template does not fit in the image
match_single_px(in, tpl, x0, y0, x1, y1, ox, oy) ==
    LET P == Placements(x0, y0, x1, y1, tpl.w, tpl.h)
        best == BestPlacement(in.corr, P)
    IN  IF P = {} THEN Raised
        ELSE IF Corr(in.corr, best) >= in.thr
        THEN MatchResult(in.key, Corr(in.corr, best),
                         <<ox + (best[1] - x0), oy + (best[2] - y0)>>,
                         tpl.w, tpl.h)
        ELSE None

\* self._tpl_gray.get(key) and self._tpl_color.get(key): the template's
\* size, or NoTpl
NoTpl == [w |-> 0, h |-> 0]
tpl_get(cache, key) == Get(cache, key, NoTpl)

\* _match_gray: the whole screenshot, offset by the window's corner
match_gray_px(in) ==
    LET tpl == tpl_get(in.store.gray, in.key)
    IN  IF tpl = NoTpl THEN None
        ELSE match_single_px(in, tpl, 0, 0, in.bbox.width, in.bbox.height,
                             in.bbox.left, in.bbox.top)

\* _match_color
match_color_px(in) ==
    LET tpl == tpl_get(in.store.color, in.key)
    IN  IF tpl = NoTpl THEN None
        ELSE match_single_px(in, tpl, 0, 0, in.bbox.width, in.bbox.height,
                             in.bbox.left, in.bbox.top)

\* _match_roi offsetting the location by the window's corner
match_roi_px_window_origin(in, roi) ==
    LET r == roi_abs(in.bbox, roi)
        x0 == r[1] - in.bbox.left
        y0 == r[2] - in.bbox.top
        x1 == r[3] - in.bbox.left
        y1 == r[4] - in.bbox.top
        tpl == tpl_get(IF in.use_color THEN in.store.color ELSE in.store.gray,
                       in.key)
    IN  IF x1 <= x0 \/ y1 <= y0 THEN None
        ELSE IF tpl = NoTpl THEN None
        ELSE match_single_px(in, tpl, x0, y0, x1, y1,
                             in.bbox.left, in.bbox.top)

\* _match_roi: the sub-image of the region, offset by the region's corner
match_roi_px(in, roi) ==
    LET r == roi_abs(in.bbox, roi)
        x0 == r[1] - in.bbox.left
        y0 == r[2] - in.bbox.top
        x1 == r[3] - in.bbox.left
        y1 == r[4] - in.bbox.top
        tpl == tpl_get(IF in.use_color THEN in.store.color ELSE in.store.gray,
                       in.key)
    IN  IF x1 <= x0 \/ y1 <= y0 THEN None
        ELSE IF tpl = NoTpl THEN None
        ELSE match_single_px(in, tpl, x0, y0, x1, y1, r[1], r[2])

\* the window rectangles, the regions, the thresholds and the scores of
\* the calls under study
Origins == {<<0, 0>>, <<5, 3>>}

BBoxes ==
    {[left |-> o[1], top |-> o[2], width |-> w, height |-> h] :
        o \in Origins, w \in (MaxW - 1)..MaxW, h \in (MaxH - 1)..MaxH}

Regions ==
    {<<0, 0, 100, 100>>, <<50, 0, 100, 100>>, <<50, 0, 50, 100>>,
     <<-20, 0, 130, 100>>}

Thrs == {80, 85}

PxScores == {80, 90}

HotCounts == {0, 1, 2}

Pixels(bb) == (0..(bb.width - 1)) \X (0..(bb.height - 1))

CorrMaps(bb) ==
    UNION {[D -> PxScores] :
              D \in {X \in SUBSET Pixels(bb) : Cardinality(X) \in HotCounts}}

OneFile(ext, pic) == Dir([f \in {File("btn_next", ext)} |-> pic])

Dirs ==
    {NoDir, OneFile(".png", Picture(1, 1)), OneFile(".PNG", Picture(2, 2)),
     OneFile(".png", Unreadable), OneFile(".txt", Picture(1, 1))}

Stores == {load_templates(d) : d \in Dirs}

\* the inputs of a call on a window rectangle: the Template Store, the key,
\* the threshold, the region, the colour mode and the screenshot
MatchInputs(bb) ==
    {[bbox |-> bb, store |-> s, key |-> "btn_next",
      thr |-> t, roi |-> r, use_color |-> c, corr |-> m] :
        s \in Stores, t \in Thrs, r \in Regions, c \in BOOLEAN,
        m \in CorrMaps(bb)}

Pending == [kind |-> "pending"]

InitMatch ==
    /\ now = Epoch
    /\ cfg = CfgA
    /\ params = update_runtime_params(cfg)
    /\ stop = FALSE
    /\ cur = NoState
    /\ pc = "new"
    /\ loc = NoLoc
    /\ scr = Blank
    /\ out = NoOut
    /\ gui = NoGui
    /\ \E bb \in BBoxes : \E i \in MatchInputs(bb) :
          call = [in |-> i, res |-> [full |-> Pending, roi |-> Pending]]

\* a call of _match_gray on the screenshot
match_gray_call ==
    /\ ~call.in.use_color
    /\ call.res.full = Pending
    /\ call' = [call EXCEPT !.res.full = match_gray_px(call.in)]
    /\ UNCHANGED <<core, gui>>

\* a call of _match_color on the screenshot
match_color_call ==
    /\ call.in.use_color
    /\ call.res.full = Pending
    /\ call' = [call EXCEPT !.res.full = match_color_px(call.in)]
    /\ UNCHANGED <<core, gui>>

\* a call of _match_roi on the same screenshot
match_roi_call ==
    /\ call.res.roi = Pending
    /\ call' = [call EXCEPT !.res.roi = match_roi_px(call.in, call.in.roi)]
    /\ UNCHANGED <<core, gui>>

NextMatch == match_gray_call \/ match_color_call \/ match_roi_call

SpecMatch == InitMatch /\ [][NextMatch]_vars

-----------------------------------------------------------------------------
(* C15 *)

\* the cache of the colour space the call asks for
Cache(in) == IF in.use_color THEN in.store.color ELSE in.store.gray

TemplatePresent(in) == in.key \in DOMAIN Cache(in)

\* the pixels of the sub-image a call looks at: the whole screenshot, or
\* the columns and rows of the region
SubImage(in, which) ==
    IF which = "full" THEN Pixels(in.bbox)
    ELSE {p \in Pixels(in.bbox) :
            /\ (in.bbox.width * clamp01(in.roi[1])) \div 100 <= p[1]
            /\ p[1] < (in.bbox.width * clamp01(in.roi[3])) \div 100
            /\ (in.bbox.height * clamp01(in.roi[2])) \div 100 <= p[2]
            /\ p[2] < (in.bbox.height * clamp01(in.roi[4])) \div 100}

\* the placements at which the whole template lies inside the sub-image
Fitting(in, which) ==
    LET S == SubImage(in, which)
        t == Cache(in)[in.key]
    IN  {p \in S : \A dx \in 0..(t.w - 1), dy \in 0..(t.h - 1) :
                      <<p[1] + dx, p[2] + dy>> \in S}

\* the best score of the sub-image reaches the threshold
ScoreReaches(in, which) ==
    \E p \in Fitting(in, which) : Corr(in.corr, p) >= in.thr

\* C15: a finished match call returned a result exactly when the template
\* is in the cache of the requested colour space, the sub-image is not
\* empty and its best score is at least the threshold; with the template
\* missing or a region of no area it returned none and did not raise
C15_MatchIffPresentNonEmptyAboveThreshold ==
    \A which \in {"full", "roi"} :
        LET r == call.res[which]
            in == call.in
        IN  r # Pending =>
              /\ r.kind = "hit" <=>
                    /\ TemplatePresent(in)
                    /\ SubImage(in, which) # {}
                    /\ ScoreReaches(in, which)
              /\ (~TemplatePresent(in) \/ SubImage(in, which) = {})
                    => r.kind = "none"

\* a match at exactly the threshold on the screenshot, and no match in a
\* region of no area although the template is there
C15_Witness ==
    /\ call.res.full.kind = "hit"
    /\ call.res.full.maxv = call.in.thr
    /\ TemplatePresent(call.in)
    /\ SubImage(call.in, "roi") = {}
    /\ call.res.roi = None

-----------------------------------------------------------------------------
(* C16 *)

\* C16: with the region (0, 0, 1, 1), matching restricted to the region
\* returns what matching the whole screenshot in the same colour mode
\* returns: none for none, and the same key, score, corners and centre
C16_FullRegionSameAsUnrestricted ==
    (/\ call.in # <<>>
     /\ call.in.roi = <<0, 0, 100, 100>>
     /\ call.res.full # Pending
     /\ call.res.roi # Pending)
        => call.res.roi = call.res.full

\* both calls made with the region (0, 0, 1, 1) in a window away from the
\* screen's corner, and the template found
C16_Witness ==
    /\ call.in # <<>>
    /\ call.in.roi = <<0, 0, 100, 100>>
    /\ call.in.bbox.left > 0
    /\ call.res.full.kind = "hit"
    /\ call.res.roi.kind = "hit"

-----------------------------------------------------------------------------
(* C17 *)

\* the placement a result's top-left corner names, in screenshot pixels
PlacementOf(in, r) == <<r.tl[1] - in.bbox.left, r.tl[2] - in.bbox.top>>

-----------------------------------------------------------------------------
(* The points the states pass to click_abs, in pixels *)

\* Relic_Selection_State._abs_from_rel, fractions in hundredths
abs_from_rel(bb, rx, ry) ==
    <<bb.left + ((bb.width * rx) \div 100), bb.top + ((bb.height * ry) \div 100)>>

\* CARD_CENTERS_REL[0] through _abs_from_rel
card_left_px(bb) == abs_from_rel(bb, 20, 62)

\* ((L + R) // 2, (T + B) // 2) of _roi_abs(ROI_SKIP_BTN)
roi_center_px(bb) ==
    LET r == roi_abs(bb, ROI_SKIP_BTN.box)
    IN  <<(r[1] + r[3]) \div 2, (r[2] + r[4]) \div 2>>

\* Battle_State.SPAM_X_ANCHOR and SPAM_Y_ANCHORS, in thousandths
SPAM_X_ANCHOR == 940
SPAM_Y_ANCHORS == <<100, 112, 113>>

\* the burst: x_rel = int(width * SPAM_X_ANCHOR), and for each y_r the point
\* (x_rel, int(height * y_r))
spam_points_px(bb) ==
    [i \in 1..3 |-> <<(bb.width * SPAM_X_ANCHOR) \div 1000,
                      (bb.height * SPAM_Y_ANCHORS[i]) \div 1000>>]

NoClick == [by |-> "-", pts |-> <<>>]

InitClick ==
    /\ now = Epoch
    /\ cfg = CfgA
    /\ params = update_runtime_params(cfg)
    /\ stop = FALSE
    /\ cur = NoState
    /\ pc = "new"
    /\ loc = NoLoc
    /\ scr = Blank
    /\ out = NoOut
    /\ gui = NoGui
    /\ \E bb \in BBoxes : \E i \in MatchInputs(bb) :
          call = [in |-> i, res |-> NoClick]

\* b.click_abs(hit.center) on the result of a match call
click_match_center ==
    /\ call.res = NoClick
    /\ \E r \in {match_roi_px(call.in, call.in.roi),
                  IF call.in.use_color THEN match_color_px(call.in)
                  ELSE match_gray_px(call.in)} :
          /\ r.kind = "hit"
          /\ call' = [call EXCEPT !.res = [by |-> "match", pts |-> <<r.center>>]]
    /\ UNCHANGED <<core, gui>>

\* Relic_Selection_State.run clicking the leftmost card
click_default_left ==
    /\ call.res = NoClick
    /\ call' = [call EXCEPT !.res = [by |-> "card",
                                      pts |-> <<card_left_px(call.in.bbox)>>]]
    /\ UNCHANGED <<core, gui>>

\* _BaseSkipBottomRight.run clicking the centre of ROI_SKIP_BTN
click_roi_center ==
    /\ call.res = NoClick
    /\ call' = [call EXCEPT !.res = [by |-> "roi_center",
                                      pts |-> <<roi_center_px(call.in.bbox)>>]]
    /\ UNCHANGED <<core, gui>>

\* Battle_State.run's burst of clicks on the anchor points
click_spam_burst ==
    /\ call.res = NoClick
    /\ call' = [call EXCEPT !.res = [by |-> "spam",
                                      pts |-> spam_points_px(call.in.bbox)]]
    /\ UNCHANGED <<core, gui>>

NextClick ==
    click_match_center \/ click_default_left \/ click_roi_center
        \/ click_spam_burst

SpecClick == InitClick /\ [][NextClick]_vars

-----------------------------------------------------------------------------
(* C18 *)

InsideWindow(bb, pt) ==
    /\ bb.left <= pt[1] /\ pt[1] <= bb.left + bb.width
    /\ bb.top <= pt[2] /\ pt[2] <= bb.top + bb.height

\* C18: every point passed to click_abs lies inside the bound window's
\* rectangle [left, left + width] x [top, top + height], wherever the
\* window is on the screen
C18_ClicksInsideWindow ==
    \A i \in DOMAIN call.res.pts : InsideWindow(call.in.bbox, call.res.pts[i])

-----------------------------------------------------------------------------
(* The Template Store after construction: the operations that read it *)

\* the longest list of names given to warmup
MaxKeys == 2

TplNames == {"btn_next", "title_route"}

\* names asked for: in the directory or not
AskedNames == TplNames \cup {"btn_skip"}

FileNames == {File(s, e) : s \in TplNames, e \in {".png", ".PNG", ".txt"}}

\* the directories: missing, or up to two files, each readable or not
StoreDirs ==
    {NoDir} \cup
    {Dir(f) : f \in UNION {[D -> {Picture(1, 1), Unreadable}] :
                  D \in {X \in SUBSET FileNames : Cardinality(X) <= 2}}}

\* the outcome of an operation on the store: the store after it, whether it
\* raised, and the last template it got (NoTpl for None)
Outcome(store, raised, got) == [store |-> store, raised |-> raised, got |-> got]

\* State_Base.warmup writing a placeholder for a name that is in no cache
RECURSIVE warmup_filling(_, _)
warmup_filling(store, keys) ==
    IF keys = <<>> THEN Outcome(store, FALSE, NoTpl)
    ELSE LET k == Head(keys)
             g == tpl_get(store.gray, k)
             c == IF g = NoTpl THEN tpl_get(store.color, k) ELSE g
             filled == IF c = NoTpl
                       THEN [store EXCEPT !.gray =
                               [n \in DOMAIN store.gray \cup {k} |->
                                   tpl_get(store.gray, n)]]
                       ELSE store
             rest == warmup_filling(filled, Tail(keys))
         IN  IF Tail(keys) = <<>> THEN Outcome(filled, FALSE, c) ELSE rest

\* State_Base.warmup: for each name, _tpl_gray.get(k, None) and, when that
\* is None, _tpl_color.get(k, None)
RECURSIVE warmup(_, _)
warmup(store, keys) ==
    IF keys = <<>> THEN Outcome(store, FALSE, NoTpl)
    ELSE LET k == Head(keys)
             g == tpl_get(store.gray, k)
             c == IF g = NoTpl THEN tpl_get(store.color, k) ELSE g
             rest == warmup(store, Tail(keys))
         IN  IF Tail(keys) = <<>> THEN Outcome(store, FALSE, c) ELSE rest

\* the names MazeBot.start preloads that the directories here can hold
start_preload == <<"title_route", "btn_next">>

NoOp == [op |-> "-", keys |-> <<>>, raised |-> FALSE, got |-> NoTpl]

Op(name, keys, o) ==
    [op |-> name, keys |-> keys, raised |-> o.raised, got |-> o.got]

InitStore ==
    /\ now = Epoch
    /\ cfg = CfgA
    /\ params = update_runtime_params(cfg)
    /\ stop = FALSE
    /\ cur = NoState
    /\ pc = "new"
    /\ loc = NoLoc
    /\ scr = Blank
    /\ out = NoOut
    /\ gui = NoGui
    /\ call \in {[in |-> [dir |-> d, store |-> load_templates(d)], res |-> NoOp] :
                    d \in StoreDirs}

\* self.warmup(keys) at the head of a state's run()
store_warmup(keys) ==
    /\ \E o \in {warmup(call.in.store, keys)} :
          call' = [in |-> [call.in EXCEPT !.store = o.store],
                   res |-> Op("warmup", keys, o)]
    /\ UNCHANGED <<core, gui>>

\* MazeBot.start: the preload loop
store_start ==
    /\ \E o \in {warmup(call.in.store, start_preload)} :
          call' = [in |-> [call.in EXCEPT !.store = o.store],
                   res |-> Op("start", start_preload, o)]
    /\ UNCHANGED <<core, gui>>

\* MazeBot.stop
store_stop ==
    /\ call' = [call EXCEPT !.res = Op("stop", <<>>, Outcome(call.in.store, FALSE, NoTpl))]
    /\ UNCHANGED <<core, gui>>

\* a step of loop(): the match functions get a template from one cache
store_step(key, use_color) ==
    /\ \E t \in {tpl_get(IF use_color THEN call.in.store.color
                           ELSE call.in.store.gray, key)} :
          call' = [call EXCEPT !.res = Op(IF use_color THEN "match_color"
                                          ELSE "match_gray", <<key>>,
                                          Outcome(call.in.store, FALSE, t))]
    /\ UNCHANGED <<core, gui>>

NextStore ==
    \/ \E keys \in SeqsUpTo(AskedNames, MaxKeys) : store_warmup(keys)
    \/ store_start
    \/ store_stop
    \/ \E key \in AskedNames, c \in BOOLEAN : store_step(key, c)

SpecStore == InitStore /\ [][NextStore]_vars

-----------------------------------------------------------------------------
(* C19 *)

\* C19: no operation after construction changes either cache or raises on
\* account of the store, however often warmup is called and with whatever
\* names; and the colour cache and the intensity cache hold the same names
C19_StoreImmutableAfterConstruction ==
    /\ [][/\ call'.in.store = call.in.store
           /\ call'.in.store = load_templates(call.in.dir)
           /\ ~call'.res.raised]_vars
    /\ [](call.in # <<>> =>
             DOMAIN call.in.store.color = DOMAIN call.in.store.gray)

\* warmup has run with a name that is in the store and one that is not, on
\* a store that holds a template
C19_Witness ==
    /\ call.res.op = "warmup"
    /\ call.res.keys = <<"btn_next", "btn_skip">>
    /\ "btn_next" \in DOMAIN call.in.store.gray
    /\ "btn_skip" \notin DOMAIN call.in.store.gray
    /\ call.in.store = load_templates(call.in.dir)

-----------------------------------------------------------------------------
(* start() and the window binding.  A title is a sequence of characters,  *)
(* an open window a title with a rectangle; the windows open when start() *)
(* runs are its input.                                                     *)

\* the most windows open at once, and the most calls of start() followed
MaxWins == 2
MaxStarts == 2

\* `s in t` on strings: s occurs in t as a run of consecutive characters
Contains(t, s) ==
    \E i \in 0..(Len(t) - Len(s)) : SubSeq(t, i + 1, i + Len(s)) = s

Window(title, left, top, width, height) ==
    [title |-> title, left |-> left, top |-> top, width |-> width,
     height |-> height]

OpenWindows ==
    {Window(<<"g", "m">>, 0, 0, 2, 1), Window(<<"g", "m", "g">>, 5, 3, 3, 2)}

WinLists == SeqsUpTo(OpenWindows, MaxWins)

\* the hwnd_title given to the constructor
HwndTitles == {<<>>, <<"m", "g">>}

NoBBox == [left |-> 0, top |-> 0, width |-> 0, height |-> 0]

\* _ensure_window keeping the rectangle of the first open window
ensure_window_first_open(hwnd_title, wins) ==
    LET titles == SelectSeq([i \in 1..Len(wins) |-> wins[i].title],
                            LAMBDA t : Contains(t, hwnd_title))
    IN  IF titles = <<>> THEN [raised |-> "Window not found", bbox |-> NoBBox]
        ELSE LET win == wins[1]
             IN  [raised |-> "",
                  bbox |-> [left |-> win.left, top |-> win.top,
                            width |-> win.width, height |-> win.height]]

\* MazeBot._ensure_window: the titles that contain hwnd_title, the error
\* when there is none, else the rectangle of the first window that
\* gw.getWindowsWithTitle(titles[0]) finds
ensure_window(hwnd_title, wins) ==
    LET titles == SelectSeq([i \in 1..Len(wins) |-> wins[i].title],
                            LAMBDA t : Contains(t, hwnd_title))
    IN  IF titles = <<>> THEN [raised |-> "Window not found", bbox |-> NoBBox]
        ELSE LET found == SelectSeq(wins, LAMBDA w : Contains(w.title, titles[1]))
                 win == found[1]
             IN  [raised |-> "",
                  bbox |-> [left |-> win.left, top |-> win.top,
                            width |-> win.width, height |-> win.height]]

\* no call of start() yet: no rectangle, no error
NoStart == [starts |-> 0, raised |-> "", bbox |-> NoBBox]

InitStart ==
    /\ now = Epoch
    /\ cfg = CfgA
    /\ params = update_runtime_params(cfg)
    /\ stop = FALSE
    /\ cur = NoState
    /\ pc = "new"
    /\ loc = NoLoc
    /\ scr = Blank
    /\ out = NoOut
    /\ gui = NoGui
    /\ \E h \in HwndTitles : call = [in |-> [hwnd_title |-> h], res |-> NoStart]

\* MazeBot.start with the windows wins open: before loop() or after it
\* returned
start_with(wins) ==
    /\ pc \in {"new", "done"}
    /\ call.res.starts < MaxStarts
    /\ stop' = FALSE
    /\ \E e \in {ensure_window(call.in.hwnd_title, wins)} :
          IF e.raised # ""
          THEN /\ call' = [call EXCEPT !.res.starts = @ + 1,
                                        !.res.raised = e.raised]
               /\ UNCHANGED <<params, cur, pc>>
          ELSE /\ call' = [call EXCEPT !.res = [starts |-> @.starts + 1,
                                                 raised |-> "",
                                                 bbox |-> e.bbox]]
               /\ params' = update_runtime_params(cfg)
               /\ cur' = Init_State(now)
               /\ pc' = "started"
    /\ UNCHANGED <<now, cfg, loc, scr, out, gui>>

\* loop() called once start() has bound a window
LoopEnterBound == call.res.bbox # NoBBox /\ LoopEnter

NextStart ==
    \/ \E wins \in WinLists : start_with(wins)
    \/ LoopEnterBound
    \/ LoopTop
    \/ Iterate
    \/ Stop

SpecStart == InitStart /\ [][NextStart]_vars

-----------------------------------------------------------------------------
(* C20 *)

SomeTitleContains(wins, s) == \E i \in 1..Len(wins) : Contains(wins[i].title, s)

RectOf(w) ==
    [left |-> w.left, top |-> w.top, width |-> w.width, height |-> w.height]

\* C20: a call of start() succeeds exactly when the title of an open window
\* contains the configured substring; then the stop flag is clear, the
\* rectangle of an open window whose title contains the substring is
\* recorded and the current state is a fresh Init state; otherwise it fails
\* with the window-not-found error and the current state is as before
C20_StartSucceedsIffWindowFound ==
    [][\A wins \in WinLists : start_with(wins) =>
          IF SomeTitleContains(wins, call.in.hwnd_title)
          THEN /\ call'.res.raised = ""
               /\ ~stop'
               /\ \E i \in 1..Len(wins) :
                     /\ Contains(wins[i].title, call.in.hwnd_title)
                     /\ call'.res.bbox = RectOf(wins[i])
               /\ cur' = [kind |-> "Init", after |-> <<>>, t0 |-> now,
                          last |-> 0, beat |-> 0, battle_cls |-> "-"]
          ELSE /\ call'.res.raised = "Window not found"
               /\ cur' = cur]_vars

\* start() failed for want of a window after a loop had run and left a
\* state other than Init as the current state
C20_Witness ==
    /\ call.res.starts = 2
    /\ call.res.raised = "Window not found"
    /\ cur.kind \notin {"None", "Init"}
    /\ pc = "done"

-----------------------------------------------------------------------------
(* What the last iteration did, as the properties below read it: out.by   *)
(* is the kind that ran, scr the screenshot it grabbed, out.clicks its    *)
(* clicks; when run() returned a state, cur is that state, else cur is    *)
(* still the instance that ran.                                           *)

\* a cue scores at least thr on the whole screenshot
Shows(key, mode, thr) == Score(scr, Probe(key, mode, "full")) >= thr

\* the iteration went on to key's state without a click
WentTo(kind) == out.clicks = <<>> /\ out.ret = "State" /\ cur.kind = kind

\* run() did not return; the instance that ran is still current
Stayed == out.ret = "-" /\ cur.kind = out.by

-----------------------------------------------------------------------------
(* C21 *)

\* C21: a Triage iteration that grabbed a screenshot decides by the first
\* cue that matches, in the order: explore, explore-confirm, tag ->
\* Preparation; next button -> click it and stay; route title -> Route
\* Selection; route-confirm -> Route Confirmation with the standard Battle
\* kind; battle-skip -> Battle; relic title -> Relic Selection; none -> no
\* click, stay.  So a matching next button keeps Triage current although the
\* route title shows.
C21_TriagePriorityOrder ==
    (out.by = "Init" /\ out.grabbed) =>
        IF \/ Shows("btn_explore", "gray", params.thr_main)
           \/ Shows("btn_explore_confirm", "gray", params.thr_main)
           \/ Shows("btn_explore_confirm", "color", params.thr_main)
           \/ Shows("tag_select", "gray", params.thr_tag)
        THEN WentTo("Prepare")
        ELSE IF Shows("btn_next", "gray", params.thr_main)
        THEN out.clicks = << <<"btn_next", "gray", "full">> >> /\ Stayed
        ELSE IF Shows("title_route", "gray", params.thr_tag)
        THEN WentTo("Route_Select")
        ELSE IF Shows("btn_route_confirm", "gray", params.thr_main)
        THEN WentTo("Route_Confirm") /\ cur.battle_cls = "Battle"
        ELSE IF Shows("btn_battle_skip", "gray", params.thr_main)
        THEN WentTo("Battle")
        ELSE IF Shows("title_relic", "gray", params.thr_tag)
        THEN WentTo("Relic_Select") /\ cur.after = <<>>
        ELSE out.clicks = <<>> /\ Stayed

\* Triage clicked the next button and stayed although the route title shows
C21_Witness ==
    /\ out.by = "Init" /\ out.grabbed
    /\ Shows("btn_next", "gray", params.thr_main)
    /\ Shows("title_route", "gray", params.thr_tag)
    /\ out.clicks = << <<"btn_next", "gray", "full">> >>
    /\ cur.kind = "Init"

-----------------------------------------------------------------------------
(* C22 *)

\* the route title does not match at Route Selection's relaxed threshold
OffRoute == ~Shows("title_route", "gray", Max(50, params.thr_tag - 15))

\* C22: a Route Selection iteration whose screenshot does not match the
\* route title at the relaxed threshold clicks nothing and leaves at once:
\* to Battle if battle-skip matches, else to Relic Selection if the relic
\* title matches, else to Route Confirmation if route-confirm matches, else
\* to Triage; whatever events the screenshot shows, none is selected
C22_OffRouteDelegates ==
    (out.by = "Route_Select" /\ out.grabbed /\ OffRoute) =>
        WentTo(IF Shows("btn_battle_skip", "gray", params.thr_main) THEN "Battle"
               ELSE IF Shows("title_relic", "gray", params.thr_tag)
               THEN "Relic_Select"
               ELSE IF Shows("btn_route_confirm", "gray", params.thr_main)
               THEN "Route_Confirm"
               ELSE "Init")

\* Route Selection went back to Triage from a screenshot that shows an
\* event of event_priority above the main threshold but no route title
C22_Witness ==
    /\ out.by = "Route_Select" /\ out.grabbed /\ OffRoute
    /\ MatchedIn(params, scr, "roi1", params.thr_main) # {}
    /\ out.clicks = <<>>
    /\ cur.kind = "Init"

-----------------------------------------------------------------------------
(* C23 *)

\* the route title matches at Route Selection's relaxed threshold
OnRoute == Shows("title_route", "gray", Max(50, params.thr_tag - 15))

\* the earliest position of a non-empty set of positions of event_priority
Earliest(P) == CHOOSE i \in P : \A j \in P : i <= j

\* the last iteration clicked once, on the match of a name in a region
ClickedEvent(name, region) ==
    /\ Len(out.clicks) = 1
    /\ out.clicks[1][1] = name
    /\ out.clicks[1][3] = region

\* C23: on a route screen the second pass (larger region, threshold lower by
\* 0.02) decides only when no name of event_priority matches in the first
\* pass, and each pass takes the earliest name of event_priority that matches
\* in it; a name matching in the first pass is clicked even when an earlier
\* name would match in the second pass
C23_SecondPassOnlyAfterFirstFails ==
    (out.by = "Route_Select" /\ out.grabbed /\ OnRoute) =>
        LET p1 == MatchedIn(params, scr, "roi1", params.thr_main)
            p2 == MatchedIn(params, scr, "roi2", params.thr_main - 2)
        IN  IF p1 # {}
            THEN ClickedEvent(params.event_priority[Earliest(p1)], "roi1")
            ELSE IF p2 # {}
            THEN ClickedEvent(params.event_priority[Earliest(p2)], "roi2")
            ELSE out.clicks = <<>> /\ Stayed

\* the event clicked matched in the first pass, and an earlier name of
\* event_priority matches in the second pass only
C23_Witness ==
    /\ out.by = "Route_Select" /\ out.grabbed /\ OnRoute
    /\ \E i \in MatchedIn(params, scr, "roi1", params.thr_main) :
       \E j \in MatchedIn(params, scr, "roi2", params.thr_main - 2) :
          /\ j < i
          /\ j \notin MatchedIn(params, scr, "roi1", params.thr_main)
          /\ ClickedEvent(params.event_priority[i], "roi1")

-----------------------------------------------------------------------------
(* The debug flag.  Two bots are run side by side on the same clock        *)
(* readings, screenshots, parameters and stop requests: the bot of the     *)
(* variables above with debug off, and a twin with debug on, kept in       *)
(* call.res together with the lines it logs on account of the flag.        *)

Line(tag, names, n) == [tag |-> tag, names |-> names, n |-> n]

\* _scan_debug_hits: the event templates that match at the loose threshold
\* max(0.50, thr_main - 0.25), in event order (the log's order is by score)
scan_debug_hits(b, s, roi) ==
    SelectSeq(<<"event_boss", "event_risky", "event_battle", "event_support",
                "event_shop", "event_event", "event_unknown">>,
              LAMBDA k : try_match(s, k, roi, Max(50, b.thr_main - 25)).hit)

\* _collect_eligible: the names of event_priority that match at thr_main
collect_eligible(b, s, roi) ==
    SelectSeq(b.event_priority, LAMBDA k : try_match(s, k, roi, b.thr_main).hit)

\* the debug block of Route_Selection_State.run is entered
debug_block(self, b, dl, in, r, debug) ==
    /\ debug
    /\ self.kind = "Route_Select"
    /\ r.grabbed
    /\ match_gray(in.scr, "title_route", Max(50, b.thr_tag - 15)).hit
    /\ in.t - dl > 7

\* the lines one iteration logs only when debug is on: the heartbeat's
\* state line, the route debug block, the choice and each click
debug_lines(self, b, dl, in, r) ==
    (IF r.self.beat # self.beat
     THEN <<Line("STATE", <<self.kind>>, r.self.beat)>> ELSE <<>>)
    \o (IF debug_block(self, b, dl, in, r, TRUE)
        THEN <<Line("ROUTE/DBG priority", b.event_priority, 0),
               Line("ROUTE/DBG seen", scan_debug_hits(b, in.scr, roi1(b)), 0),
               Line("ROUTE/DBG eligible", collect_eligible(b, in.scr, roi1(b)), 0)>>
        ELSE <<>>)
    \o (IF self.kind = "Route_Select" /\ r.clicks # <<>>
        THEN <<Line("ROUTE choose", <<r.clicks[1][1]>>, 0)>> ELSE <<>>)
    \o [i \in 1..Len(r.clicks) |-> Line("CLICK", <<r.clicks[i][1]>>, i)]

\* an iteration whose debug block goes back to the top of the loop after
\* logging, without picking
run_debug_block_continues(self, b, l, dl, in, debug) ==
    LET r == run(self, b, l, in)
        block == debug_block(self, b, dl, in, r, debug)
        rr == IF block THEN Continue(<<>>, r.self, l) ELSE r
    IN  [r |-> rr,
         log |-> IF debug THEN debug_lines(self, b, dl, in, rr) ELSE <<>>,
         dbg_last |-> IF block THEN in.t ELSE dl]

\* one iteration of run() on a bot whose debug flag is debug; dl is the
\* local dbg_last of Route_Selection_State.run
run_debug(self, b, l, dl, in, debug) ==
    LET r == run(self, b, l, in)
    IN  [r |-> r,
         log |-> IF debug THEN debug_lines(self, b, dl, in, r) ELSE <<>>,
         dbg_last |-> IF debug_block(self, b, dl, in, r, debug) THEN in.t ELSE dl]

\* the twin after construction
NoTwin == [cur |-> NoState, loc |-> NoLoc, dbg_last |-> 0, pc |-> "new",
           clicks |-> <<>>, ret |-> "-", log |-> <<>>]

InitDebug ==
    /\ now = Epoch
    /\ cfg = CfgA
    /\ params = update_runtime_params(cfg)
    /\ stop = FALSE
    /\ cur = NoState
    /\ pc = "new"
    /\ loc = NoLoc
    /\ scr = Blank
    /\ out = NoOut
    /\ gui = NoGui
    /\ call = [in |-> [debug |-> TRUE], res |-> NoTwin]

\* MazeBot.start on both bots
StartBoth ==
    /\ pc = "new" /\ call.res.pc = "new"
    /\ stop' = FALSE
    /\ params' = update_runtime_params(cfg)
    /\ cur' = Init_State(now)
    /\ pc' = "started"
    /\ call' = [call EXCEPT !.res.cur = Init_State(now), !.res.pc = "started",
                             !.res.log = <<Line("INFO", <<>>, 0)>>]
    /\ UNCHANGED <<now, cfg, loc, scr, out, gui>>

\* MazeBot.loop up to its while loop, on both bots
LoopEnterBoth ==
    /\ pc \in {"new", "started"} /\ call.res.pc = pc
    /\ params' = update_runtime_params(cfg)
    /\ IF cur = NoState
       THEN stop' = FALSE /\ cur' = Init_State(now)
       ELSE UNCHANGED <<stop, cur>>
    /\ pc' = "loop"
    /\ call' = [call EXCEPT
                  !.res.cur = IF @ = NoState THEN Init_State(now) ELSE @,
                  !.res.pc = "loop",
                  !.res.log = IF call.res.cur = NoState
                              THEN <<Line("INFO", <<>>, 0)>> ELSE <<>>]
    /\ UNCHANGED <<now, cfg, loc, scr, out, gui>>

\* the loop test and the call of run(), on both bots
LoopTopBoth ==
    /\ pc = "loop" /\ call.res.pc = "loop"
    /\ IF stop
       THEN /\ pc' = "done"
            /\ call' = [call EXCEPT !.res.pc = "done", !.res.log = <<>>]
            /\ UNCHANGED <<now, loc>>
       ELSE \E d \in Deltas :
                /\ now + d <= MaxTime
                /\ now' = now + d
                /\ loc' = run_entry(cur.kind, now + d)
                /\ pc' = "run"
                /\ call' = [call EXCEPT
                              !.res.loc = run_entry(call.res.cur.kind, now + d),
                              !.res.dbg_last = 0,
                              !.res.pc = "run",
                              !.res.log = <<>>]
    /\ UNCHANGED <<cfg, params, stop, cur, scr, out, gui>>

\* one iteration on both bots: the same clock reading and screenshot
IterateBoth ==
    /\ pc = "run" /\ call.res.pc = "run"
    /\ \E d \in Deltas :
       \E g \in (IF stop THEN {Blank} ELSE CueScreens[cur.kind]) :
       \E e \in (IF stop THEN {Blank} ELSE EventPart(cur.kind, g)) :
       \E r \in {run_debug(cur, params, loc, 0,
                            [stop |-> stop, scr |-> g @@ e, t |-> now + d],
                            FALSE).r} :
       \E w \in {run_debug(call.res.cur, params, call.res.loc, call.res.dbg_last,
                            [stop |-> stop, scr |-> g @@ e, t |-> now + d],
                            TRUE)} :
          LET in == [stop |-> stop, scr |-> g @@ e, t |-> now + d]
          IN  /\ in.t <= MaxTime
              /\ now' = in.t
              /\ scr' = IF r.grabbed THEN in.scr ELSE Blank
              /\ out' = [by |-> cur.kind, grabbed |-> r.grabbed,
                         clicks |-> r.clicks,
                         ret |-> IF ~r.done THEN "-"
                                 ELSE IF r.ret = NoState THEN "None" ELSE "State",
                         beat |-> r.self.beat]
              /\ cur' = IF r.done /\ r.ret # NoState THEN r.ret ELSE r.self
              /\ loc' = IF r.done THEN NoLoc ELSE r.loc
              /\ pc' = IF r.done THEN "loop" ELSE "run"
              /\ call' = [call EXCEPT
                    !.res.cur = IF w.r.done /\ w.r.ret # NoState
                                THEN w.r.ret ELSE w.r.self,
                    !.res.loc = IF w.r.done THEN NoLoc ELSE w.r.loc,
                    !.res.dbg_last = w.dbg_last,
                    !.res.pc = IF w.r.done THEN "loop" ELSE "run",
                    !.res.clicks = w.r.clicks,
                    !.res.ret = IF ~w.r.done THEN "-"
                                ELSE IF w.r.ret = NoState THEN "None" ELSE "State",
                    !.res.log = w.log]
    /\ UNCHANGED <<cfg, params, stop, gui>>

NextDebug == StartBoth \/ LoopEnterBoth \/ LoopTopBoth \/ IterateBoth \/ Stop

SpecDebug == InitDebug /\ [][NextDebug]_vars

-----------------------------------------------------------------------------
(* C24 *)

-----------------------------------------------------------------------------
(* C25 *)

\* the screenshot the step grabs shows the template to the probe
ShowsNext(key, mode, thr) == Score(scr', Probe(key, mode, "full")) >= thr

\* the step returns a new instance of the kind, without a chain
HandsOverTo(kind) ==
    out'.ret = "State" /\ cur'.kind = kind /\ cur'.after = <<>> /\ cur'.t0 = now'

\* C25: a Route Confirmation iteration that grabs a screenshot clicks the
\* confirm button once when it matches (colour first, then grayscale) and
\* hands over to the battle kind the instance carries; with no confirm match
\* and a battle-skip match it hands over to the carried kind without a
\* click; with neither and a relic title it hands over to Relic Selection
\* with an empty chain; otherwise it stays.  The carried kind is Battle or
\* Boss Battle, and it is Battle when the instance was constructed without
\* one (by Triage, or by Route Selection off the route screen)
C25_ConfirmHandsOverToCarriedKind ==
    [][ /\ (Iterating /\ cur.kind = "Route_Confirm" /\ out'.grabbed) =>
            /\ cur.battle_cls \in {"Battle", "Boss_Battle"}
            /\ IF ShowsNext("btn_route_confirm", "color", params.thr_main)
               THEN /\ out'.clicks = << <<"btn_route_confirm", "color", "full">> >>
                    /\ HandsOverTo(cur.battle_cls)
               ELSE IF ShowsNext("btn_route_confirm", "gray", params.thr_main)
               THEN /\ out'.clicks = << <<"btn_route_confirm", "gray", "full">> >>
                    /\ HandsOverTo(cur.battle_cls)
               ELSE IF ShowsNext("btn_battle_skip", "gray", params.thr_main)
               THEN out'.clicks = <<>> /\ HandsOverTo(cur.battle_cls)
               ELSE IF ShowsNext("title_relic", "gray", params.thr_tag)
               THEN out'.clicks = <<>> /\ HandsOverTo("Relic_Select")
               ELSE out'.clicks = <<>> /\ out'.ret = "-" /\ cur'.kind = "Route_Confirm"
        /\ (Iterating /\ out'.ret = "State" /\ cur'.kind = "Route_Confirm"
              /\ (cur.kind = "Init" \/ out'.clicks = <<>>)) =>
            cur'.battle_cls = "Battle"
      ]_vars

\* Route Confirmation carrying the boss variant clicked the confirm button
\* once, and the current state is a Boss Battle
C25_Witness ==
    /\ out.by = "Route_Confirm" /\ out.ret = "State"
    /\ Len(out.clicks) = 1 /\ out.clicks[1][1] = "btn_route_confirm"
    /\ cur.kind = "Boss_Battle"

-----------------------------------------------------------------------------
(* C26 *)

\* the last iteration was one of a battle kind that grabbed a screenshot
BattleIteration == out.by \in {"Battle", "Boss_Battle"} /\ out.grabbed

\* the screenshot shows the next cue to one of Battle's two probes of it
NextCue ==
    \/ Score(scr, Probe("btn_next", "gray", "ROI_NEXT")) >= params.thr_main - 10
    \/ Score(scr, Probe("btn_next", "gray", "full")) >= params.thr_main - 8

\* the screenshot shows the skip cue to one of Battle's three probes of it
SkipCue ==
    \/ Score(scr, Probe("btn_battle_skip", "color", "ROI_SKIP"))
          >= Max(30, params.thr_skip_color - 8)
    \/ Score(scr, Probe("btn_battle_skip", "gray", "ROI_SKIP")) >= params.thr_main - 12
    \/ Score(scr, Probe("btn_skip", "color", "ROI_SKIP")) >= params.thr_main - 12

\* C26: in a Battle iteration the next cue comes first: when it matches,
\* whether or not skip matches too, there is exactly one click, on the next
\* match, and Battle hands over to Relic Selection with the chain of its
\* kind; when only skip matches there are exactly two clicks, both at the
\* centre of the skip match, and Battle stays
C26_NextBeforeSkip ==
    BattleIteration =>
        IF NextCue
        THEN /\ Len(out.clicks) = 1 /\ out.clicks[1][1] = "btn_next"
             /\ out.ret = "State" /\ cur.kind = "Relic_Select"
             /\ cur.after = IF out.by = "Boss_Battle"
                            THEN <<"Shop", "Support", "Route_Select">>
                            ELSE <<"Route_Select">>
        ELSE SkipCue =>
             /\ Len(out.clicks) = 2 /\ out.clicks[1] = out.clicks[2]
             /\ out.clicks[1][1] \in {"btn_battle_skip", "btn_skip"}
             /\ out.clicks[1][3] = "ROI_SKIP"
             /\ Stayed

\* a Boss Battle iteration saw both cues, clicked next once and handed over
\* to Relic Selection with the boss chain
C26_Witness ==
    /\ out.by = "Boss_Battle" /\ out.grabbed /\ NextCue /\ SkipCue
    /\ Len(out.clicks) = 1 /\ out.clicks[1][1] = "btn_next"
    /\ cur.kind = "Relic_Select" /\ Len(cur.after) = 3

-----------------------------------------------------------------------------
(* C27 *)

\* the burst: one click per anchor of SPAM_Y_ANCHORS at SPAM_X_ANCHOR
Burst ==
    << <<"spam", "0.94", "0.10">>, <<"spam", "0.94", "0.112">>,
       <<"spam", "0.94", "0.113">> >>

\* time.time() - t_enter of the last iteration, which stayed in Battle
SinceEntered == now - loc.t_enter

\* C27: a Battle iteration issues blind clicks only when neither cue
\* matches and less than SPAM_SECS have passed since run() was entered, and
\* then it issues the burst of three, one per anchor; an iteration with no
\* matching cue at or after SPAM_SECS issues no click
C27_BurstOnlyInWindowWithoutCue ==
    BattleIteration =>
        /\ (\E i \in 1..Len(out.clicks) : out.clicks[i][1] = "spam") =>
              /\ ~NextCue /\ ~SkipCue
              /\ Stayed /\ SinceEntered < 23
              /\ out.clicks = Burst
        /\ (~NextCue /\ ~SkipCue) =>
              /\ Stayed
              /\ out.clicks = IF SinceEntered < 23 THEN Burst ELSE <<>>

\* an iteration at or after SPAM_SECS that saw no cue issued no click and
\* stayed in Battle
C27_Witness ==
    /\ BattleIteration /\ ~NextCue /\ ~SkipCue
    /\ SinceEntered >= 23 /\ out.clicks = <<>> /\ Stayed

-----------------------------------------------------------------------------
(* C28 *)

\* the last step ran the loop body of a Shop or Support state: it grabbed a
\* screenshot, or its heartbeat() call ended run() before the grab (the only
\* way these states hand over to Triage)
ShopIteration ==
    /\ out.by \in {"Shop", "Support"}
    /\ out.grabbed \/ (out.ret = "State" /\ cur.kind = "Init")

\* the screenshot shows the leave cue or the next fallback to its probe
LeaveCue ==
    \/ Score(scr, Probe("btn_shop_skip", "color", "ROI_SKIP_BTN")) >= params.thr_main
    \/ Score(scr, Probe("btn_next", "gray", "ROI_SKIP_BTN")) >= params.thr_main - 8

\* C28: every Shop/Support iteration issues exactly one click: at the
\* centre of the match when the leave cue or the next fallback matches, and
\* otherwise at the geometric centre of the bottom-right region
C28_OneClickPerShopIteration ==
    ShopIteration =>
        /\ Len(out.clicks) = 1
        /\ IF LeaveCue
           THEN /\ out.clicks[1][1] \in {"btn_shop_skip", "btn_next"}
                /\ out.clicks[1][3] = "ROI_SKIP_BTN"
           ELSE out.clicks[1] = <<"roi_center", "ROI_SKIP_BTN", "">>

\* the same, of the iterations that get as far as the screenshot
ShopGrabClicksOnce ==
    (ShopIteration /\ out.grabbed) =>
        /\ Len(out.clicks) = 1
        /\ IF LeaveCue
           THEN /\ out.clicks[1][1] \in {"btn_shop_skip", "btn_next"}
                /\ out.clicks[1][3] = "ROI_SKIP_BTN"
           ELSE out.clicks[1] = <<"roi_center", "ROI_SKIP_BTN", "">>

-----------------------------------------------------------------------------
(* C29 *)

\* an iteration of a Relic Selection instance
RelicStep == Iterating /\ cur.kind = "Relic_Select"

\* C29: a Relic Selection instance issues at most one click per iteration
\* and records the clock reading of each click it stays after; with an
\* empty chain, an iteration less than 0.6 s after the recorded click issues
\* no click, so two clicks of the instance are never less than 0.6 s apart;
\* with a non-empty chain the instance has not clicked before any of its
\* iterations, and the iteration in which it clicks returns the head of
\* the chain constructed with the rest
C29_RelicClicksSpacedOrOnce ==
    [][ RelicStep =>
          /\ Len(out'.clicks) <= 1
          /\ (out'.clicks # <<>> /\ out'.ret = "-") =>
                loc'.clicked /\ loc'.t_clicked = now'
          /\ (out'.clicks = <<>> /\ out'.ret = "-") =>
                loc'.clicked = loc.clicked /\ loc'.t_clicked = loc.t_clicked
          /\ (cur.after = <<>> /\ loc.clicked /\ now' - loc.t_clicked < 6) =>
                out'.clicks = <<>>
          /\ cur.after # <<>> =>
                /\ ~loc.clicked
                /\ out'.clicks # <<>> =>
                      /\ out'.ret = "State"
                      /\ cur'.kind = Head(cur.after)
                      /\ cur'.after = Tail(cur.after)
      ]_vars

\* an instance with an empty chain that clicked stayed without a click in an
\* iteration at the same clock reading, with no cue on the screenshot
C29_Witness ==
    /\ out.by = "Relic_Select" /\ out.grabbed /\ Stayed
    /\ cur.after = <<>>
    /\ loc.clicked /\ now - loc.t_clicked < 6
    /\ out.clicks = <<>>
    /\ DOMAIN scr = {}

-----------------------------------------------------------------------------
(* C30 *)

\* the last iteration was one of Relic Selection that grabbed a screenshot
RelicIteration == out.by = "Relic_Select" /\ out.grabbed

\* C30: a Relic Selection iteration whose screenshot shows the route title
\* hands over to Route Selection without a click, whether or not battle-skip
\* shows too; one that shows battle-skip and not the title hands over to
\* Battle without a click; both hold in every iteration that grabs, those
\* inside the pause after a click included
C30_RelicCuesFirst ==
    RelicIteration =>
        IF Shows("title_route", "gray", params.thr_tag)
        THEN WentTo("Route_Select") /\ cur.after = <<>>
        ELSE Shows("btn_battle_skip", "gray", params.thr_main) => WentTo("Battle")

\* the screenshot showed both the route title and battle-skip, and Relic
\* Selection handed over to Route Selection without a click
C30_Witness ==
    /\ RelicIteration
    /\ Shows("title_route", "gray", params.thr_tag)
    /\ Shows("btn_battle_skip", "gray", params.thr_main)
    /\ WentTo("Route_Select")

-----------------------------------------------------------------------------
(* C31 *)

\* an iteration of a Preparation instance
PrepareStep == Iterating /\ cur.kind = "Prepare"

\* the step clicks the template
ClicksNext(key) == \E i \in 1..Len(out'.clicks) : out'.clicks[i][1] = key

\* the screenshot the step grabs shows the explore affordance to Preparation
ExploreShownNext ==
    \/ ShowsNext("btn_explore", "gray", params.thr_main)
    \/ ShowsNext("btn_explore", "color", params.thr_main)

\* what holds of every Preparation step: at most one click; a click on
\* explore only while the instance has not clicked it, recorded from then
\* on; a hand-over to Route Selection only with a click on confirm or with
\* the route title on the screenshot
PrepareStepFrame ==
    /\ Len(out'.clicks) <= 1
    /\ ClicksNext("btn_explore") =>
          ~loc.clicked_explore /\ loc'.clicked_explore /\ out'.ret = "-"
    /\ (loc.clicked_explore /\ out'.ret = "-") => loc'.clicked_explore
    /\ (out'.ret = "State" /\ cur'.kind = "Route_Select") =>
          \/ ClicksNext("btn_explore_confirm")
          \/ ShowsNext("title_route", "gray", params.thr_tag)

\* C31 as stated: explore is clicked at most once in the lifetime of a
\* Preparation instance, confirm is clicked only after explore has been
\* clicked, and the hand-over to Route Selection comes only with a confirm
\* click or the route title
C31_ConfirmOnlyAfterExplore ==
    [][ PrepareStep =>
          /\ PrepareStepFrame
          /\ ClicksNext("btn_explore_confirm") => loc.clicked_explore
      ]_vars

\* C31 amended: confirm is clicked only in an iteration in which explore
\* has been clicked before or does not match
C31_ConfirmAfterExploreOrWithoutIt ==
    [][ PrepareStep =>
          /\ PrepareStepFrame
          /\ ClicksNext("btn_explore_confirm") =>
                loc.clicked_explore \/ ~ExploreShownNext
      ]_vars

\* Preparation clicked confirm on a screenshot that also shows explore,
\* which it had clicked before, and handed over to Route Selection
C31_Witness ==
    /\ out.by = "Prepare" /\ out.grabbed
    /\ Shows("btn_explore", "gray", params.thr_main)
    /\ Len(out.clicks) = 1 /\ out.clicks[1][1] = "btn_explore_confirm"
    /\ out.ret = "State" /\ cur.kind = "Route_Select"

-----------------------------------------------------------------------------
(* The numeric run parameters.  The provider returns a mapping with a      *)
(* value for each of them; the values come from the configuration file     *)
(* as well as from the sliders, so they are not confined to the sliders'   *)
(* ranges.  A state passes thresholds computed from the refreshed          *)
(* parameters to the match functions.                                      *)

\* provider values of each numeric key: thresholds and the ratio in
\* hundredths, sleeps in thousandths of a second
TuningValues ==
    [ thr_main         |-> {NaN, 5, 76, 150},
      thr_tag          |-> {77, 150},
      thr_skip_color   |-> {64, 150},
      sleep_base       |-> {NaN, 0, 30},
      sleep_fast       |-> {0, 20},
      route_left_ratio |-> {NaN, 0 - 10, 2, 130} ]

TuningKeys == DOMAIN TuningValues

\* the provider's default mapping (_load_config)
DefaultTuning ==
    [ thr_main |-> 76, thr_tag |-> 77, thr_skip_color |-> 64,
      sleep_base |-> 30, sleep_fast |-> 20, route_left_ratio |-> 56 ]

\* the threshold arguments of the match calls in the run() of a kind
thresholds_passed(kind, b) ==
    CASE kind = "Init" -> {b.thr_main, b.thr_tag}
      [] kind = "Prepare" -> {b.thr_main, b.thr_tag}
      [] kind = "Route_Select" ->
            {Max(50, b.thr_tag - 15), b.thr_main, b.thr_tag, b.thr_main - 2,
             Max(50, b.thr_main - 25)}
      [] kind = "Route_Confirm" -> {b.thr_main, b.thr_tag}
      [] kind \in {"Battle", "Boss_Battle"} ->
            {b.thr_main - 10, b.thr_main - 8, Max(30, b.thr_skip_color - 8),
             b.thr_main - 12}
      [] kind = "Relic_Select" -> {b.thr_tag, b.thr_main, Max(b.thr_tag, 70)}
      [] kind \in {"Shop", "Support"} -> {b.thr_main, b.thr_main - 8}

\* no match call yet since the refresh
NoPass == [in |-> "None", res |-> 0]

InitTuning ==
    /\ now = Epoch
    /\ cfg = DefaultTuning
    /\ params = update_runtime_params(cfg)
    /\ stop = FALSE
    /\ cur = NoState
    /\ pc = "new"
    /\ loc = NoLoc
    /\ scr = Blank
    /\ out = NoOut
    /\ gui = NoGui
    /\ call = NoPass

\* _update_runtime_params: the provider returns a mapping that differs from
\* the one it returned before in the value of one key
RefreshTuning ==
    /\ \E k \in TuningKeys : \E v \in TuningValues[k] :
          /\ cfg' = [cfg EXCEPT ![k] = v]
          /\ params' = update_runtime_params([cfg EXCEPT ![k] = v])
    /\ call' = NoPass
    /\ UNCHANGED <<now, stop, cur, pc, loc, scr, out, gui>>

\* a state of some kind calls a match function with one of its thresholds
PassThreshold ==
    /\ \E kind \in Kinds : \E thr \in thresholds_passed(kind, params) :
          call' = [in |-> kind, res |-> thr]
    /\ UNCHANGED <<core, gui>>

NextTuning == RefreshTuning \/ PassThreshold

SpecTuning == InitTuning /\ [][NextTuning]_vars

-----------------------------------------------------------------------------
(* C32 *)

\* C32: every threshold a state passes to a match call lies within [0, 1],
\* whatever the provider returned for thr_main, thr_tag and thr_skip_color
C32_PassedThresholdsInUnitRange ==
    call.in # "None" => (~IsNaN(call.res) /\ call.res >= 0 /\ call.res <= 100)

-----------------------------------------------------------------------------
(* C33 *)

\* x is a number within [lo, hi]
Within(x, lo, hi) == ~IsNaN(x) /\ lo <= x /\ x <= hi

\* the timing floors and the bounds of the two Route Selection regions
TimingAndRegionsInRange ==
    /\ ~IsNaN(params.sleep_base) /\ params.sleep_base >= 6
    /\ ~IsNaN(params.sleep_fast) /\ params.sleep_fast >= 6
    /\ Within(roi1(params).box[3], 5, 75)
    /\ ~IsNaN(roi2(params).box[3]) /\ roi2(params).box[3] <= 78

\* C33: after every refresh, whatever the provider returned, sleep_base
\* and sleep_fast are at least 0.006, route_left_ratio is within [0, 1],
\* the right edge of the first-pass region is within [0.05, 0.75] and the
\* right edge of the second-pass region is at most 0.78
C33_RefreshedParamsInRange ==
    /\ TimingAndRegionsInRange
    /\ Within(params.route_left_ratio, 0, 100)

\* the same when the provider's route_left_ratio is a number
RatioInRangeWhenNumber ==
    ~IsNaN(cfg.route_left_ratio) => C33_RefreshedParamsInRange

-----------------------------------------------------------------------------
(* C34 *)

\* the fields of an instance that are set at construction and never written
Identity(st) == <<st.kind, st.after, st.t0, st.battle_cls>>

\* C34: once start() has completed (by itself or within loop()) the bot
\* has a current state, and keeps having one; the current state becomes
\* another instance only in the step in which the run() of the current
\* state returns an instance, which is that new instance, just constructed;
\* when run() returns None the current state stays the instance it was
C34_OneCurrentState ==
    [][ /\ pc' # "new" => cur' # NoState
        /\ (pc # "new" /\ Identity(cur') # Identity(cur)) =>
              /\ Iterating /\ out'.ret = "State"
              /\ cur'.t0 = now' /\ cur'.last = 0 /\ cur'.beat = 0
        /\ (Iterating /\ out'.ret = "State") => Identity(cur') # Identity(cur)
        /\ (Iterating /\ out'.ret = "None") =>
              Identity(cur') = Identity(cur) /\ pc' = "loop"
      ]_vars

\* a run() returned None to the loop, and the state that ran is current
C34_Witness ==
    /\ out.ret = "None" /\ pc = "loop"
    /\ cur # NoState /\ cur.kind = out.by

-----------------------------------------------------------------------------
(* The bot in front of a screen on which no template ever matches (no      *)
(* template loaded, or no known cue shown): every screenshot scores zero   *)
(* on every probe.                                                         *)

\* an iteration whose screenshot, if it grabs one, matches nothing
IterateBlank == Iterate /\ scr' = Blank

NextBlank == Start \/ LoopEnter \/ LoopTop \/ IterateBlank \/ Stop \/ SetCfg

SpecBlank == Init /\ [][NextBlank]_vars

-----------------------------------------------------------------------------
(* C35 *)

\* C35: when no template ever matches, no iteration clicks; the current
\* state is Triage or Route Selection only; Triage hands over only to
\* Route Selection and only by its timeout, before grabbing; and an
\* iteration of Route Selection hands over to Triage (unless the stop flag
\* ended its run)
C35_BlankScreenOnlyTriageAndRoute ==
    /\ out.clicks = <<>>
    /\ cur.kind \in {"None", "Init", "Route_Select"}
    /\ out.by \in {"None", "Init", "Route_Select"}
    /\ (out.by = "Init" /\ out.ret = "State") =>
          ~out.grabbed /\ cur.kind = "Route_Select"
    /\ out.by = "Route_Select" =>
          \/ out.ret = "State" /\ cur.kind = "Init"
          \/ out.ret = "None" /\ stop

\* Triage timed out, Route Selection grabbed a screenshot and handed back
\* to Triage, and Triage has reached its timeout a second time
C35_Witness ==
    /\ out.by = "Init" /\ out.ret = "State" /\ cur.kind = "Route_Select"
    /\ now >= Epoch + 2 * 300

-----------------------------------------------------------------------------
(* C36 *)

BossChain == <<"Shop", "Support", "Route_Select">>

\* the shapes of the chain of the current state, by kind
ChainShape ==
    CASE cur.kind \in {"None", "Init", "Prepare", "Route_Select", "Route_Confirm",
                       "Battle", "Boss_Battle"} -> cur.after = <<>>
      [] cur.kind = "Relic_Select" ->
            cur.after \in {<<>>, <<"Route_Select">>, BossChain}
      [] cur.kind = "Shop" -> cur.after = <<"Support", "Route_Select">>
      [] cur.kind = "Support" -> cur.after = <<"Route_Select">>

\* Shop is entered only from a Relic Selection with the boss chain, which
\* only a Boss Battle creates, and Support only from Shop
ChainEntries ==
    /\ (Returning /\ cur'.kind = "Shop") =>
          cur.kind = "Relic_Select" /\ cur.after = BossChain
    /\ (Returning /\ cur'.kind = "Relic_Select" /\ cur'.after = BossChain) =>
          cur.kind = "Boss_Battle"
    /\ (Returning /\ cur'.kind = "Support") => cur.kind = "Shop"

\* a hand-over made without a click: on a cue alone (short-circuit), or
\* before the screenshot, on a timeout or the stop flag
CuelessOrTimeout == Returning /\ out'.clicks = <<>>

\* the exit of Shop/Support at the end of their loop (timeout or stop)
ShopLoopExit ==
    Returning /\ cur.kind \in {"Shop", "Support"} /\ ~out'.grabbed
              /\ cur'.kind # "Init"

\* C36 as stated: the chain shapes, the entries of Shop and Support, and
\* an empty chain in the successor of every short-circuit or timeout
\* transition
C36_ChainShapesShortcutsEmpty ==
    [][ /\ ChainShape'
        /\ ChainEntries
        /\ CuelessOrTimeout => cur'.after = <<>>
      ]_vars

\* C36 amended: the successor of a short-circuit or timeout transition has
\* an empty chain, except at the end of the loop of Shop/Support (timeout or
\* stop), which hands over to the head of the chain with the rest of it
C36_ChainShapesShortcutsEmptyButShop ==
    [][ /\ ChainShape'
        /\ ChainEntries
        /\ (CuelessOrTimeout /\ ~ShopLoopExit) => cur'.after = <<>>
        /\ ShopLoopExit =>
              cur'.kind = Head(cur.after) /\ cur'.after = Tail(cur.after)
      ]_vars

\* Shop reached the end of its loop without a screenshot and handed over to
\* Support with the chain [Route Selection]
C36_Witness ==
    /\ out.by = "Shop" /\ ~out.grabbed /\ out.ret = "State"
    /\ cur.kind = "Support" /\ cur.after = <<"Route_Select">>

-----------------------------------------------------------------------------
(* C37 *)

\* the time since the construction of st exceeds the timeout of its kind
PastTimeout(st, t) == t - st.t0 > Secs(TIMEOUT_SECS(st.kind))

\* C37: while the loop runs and is not stopped, an iteration that starts
\* after the timeout of the current instance's kind has passed since its
\* construction ends the run() with a new instance, whatever the screenshot
\* would have shown; so an iteration that leaves the instance current (the
\* continue paths included) took place within the timeout, and the
\* instance is replaced at the latest by the first iteration after it
C37_ReplacedAfterTimeout ==
    [][ (Iterating /\ ~stop) =>
          /\ PastTimeout(cur, now') =>
                /\ out'.ret = "State"
                /\ Identity(cur') # Identity(cur)
                /\ cur'.t0 = now'
          /\ out'.ret = "-" =>
                /\ Identity(cur') = Identity(cur)
                /\ ~PastTimeout(cur', now')
      ]_vars

\* a Battle that kept clicking on the skip cue exactly at its timeout, still
\* current
C37_Witness ==
    /\ out.by = "Battle" /\ out.ret = "-" /\ Len(out.clicks) = 2
    /\ cur.kind = "Battle"
    /\ now - cur.t0 = Secs(45)

-----------------------------------------------------------------------------
(* C38 *)

\* the step in which the inner loop of the current run() finds the stop
\* flag set at its top
StopObserved == Iterating /\ stop

\* the run() returns None without a click and the current state is the
\* instance it was, with its chain
StopFrame ==
    /\ out'.ret = "None" /\ out'.clicks = <<>>
    /\ cur' = cur

\* C38: a run() that ends because its inner loop found the stop flag set
\* returns None, clicks nothing and leaves the current state as it was, for
\* every kind
C38_StopLeavesCurrentState == [][ StopObserved => StopFrame ]_vars

\* the same of the kinds whose loop tests the stop flag alone
StopFrameOfPlainLoops ==
    [][ (StopObserved /\ cur.kind \notin {"Relic_Select", "Shop", "Support"})
          => StopFrame ]_vars

-----------------------------------------------------------------------------
(* The window binding while the loop runs.  call.res.bbox is the recorded  *)
(* rectangle (self._bbox).  Init_State.run re-binds on entry, with the     *)
(* windows open at that moment; _grab binds when there is no rectangle.    *)
(* An error raised inside run() ends loop(): pc becomes "raised".          *)

\* a _grab that binds the window anew at every capture
grab_bind_always(bbox, hwnd_title, wins) == ensure_window(hwnd_title, wins)

\* _grab: if self._bbox is None: self._ensure_window()
grab_bind(bbox, hwnd_title, wins) ==
    IF bbox = NoBBox THEN ensure_window(hwnd_title, wins)
    ELSE [raised |-> "", bbox |-> bbox]

\* the windows open at a capture: any list while no rectangle is recorded;
\* otherwise they are not looked at, and one list stands for all
CaptureWins(bbox) ==
    IF bbox = NoBBox THEN WinLists
    ELSE {<<Window(<<"g", "m", "g">>, 5, 3, 3, 2), Window(<<"g", "m">>, 0, 0, 2, 1)>>}

\* the loop test and the call of run(); Init_State.run starts with
\* b._ensure_window(), which raises when no window is found
LoopTopBind ==
    /\ pc = "loop"
    /\ IF stop
       THEN pc' = "done" /\ UNCHANGED <<now, loc, call>>
       ELSE \E d \in Deltas :
            \E wins \in (IF cur.kind = "Init" THEN WinLists ELSE {<<>>}) :
            \E e \in {IF cur.kind = "Init"
                      THEN ensure_window(call.in.hwnd_title, wins)
                      ELSE [raised |-> "", bbox |-> call.res.bbox]} :
                /\ now + d <= MaxTime
                /\ now' = now + d
                /\ IF e.raised # ""
                   THEN /\ pc' = "raised"
                        /\ call' = [call EXCEPT !.res.raised = e.raised]
                        /\ UNCHANGED loc
                   ELSE /\ pc' = "run"
                        /\ loc' = run_entry(cur.kind, now + d)
                        /\ call' = [call EXCEPT !.res.bbox = e.bbox]
    /\ UNCHANGED <<cfg, params, stop, cur, scr, out, gui>>

\* one iteration, with the capture's use of the binding
IterateBind ==
    /\ pc = "run"
    /\ \E d \in Deltas :
       \E g \in (IF stop THEN {Blank} ELSE CueScreens[cur.kind]) :
       \E e \in (IF stop THEN {Blank} ELSE EventPart(cur.kind, g)) :
       \E r \in {run(cur, params, loc, [stop |-> stop, scr |-> g @@ e, t |-> now + d])} :
       \E wins \in (IF r.grabbed THEN CaptureWins(call.res.bbox) ELSE {<<>>}) :
       \E w \in {IF r.grabbed
                  THEN grab_bind(call.res.bbox, call.in.hwnd_title, wins)
                  ELSE [raised |-> "", bbox |-> call.res.bbox]} :
          LET in == [stop |-> stop, scr |-> g @@ e, t |-> now + d]
          IN  /\ in.t <= MaxTime
              /\ now' = in.t
              /\ IF w.raised # ""
                 THEN /\ pc' = "raised"
                      /\ call' = [call EXCEPT !.res.raised = w.raised]
                      /\ UNCHANGED <<scr, out, cur, loc>>
                 ELSE /\ scr' = IF r.grabbed THEN in.scr ELSE Blank
                      /\ out' = [by |-> cur.kind, grabbed |-> r.grabbed,
                                 clicks |-> r.clicks,
                                 ret |-> IF ~r.done THEN "-"
                                         ELSE IF r.ret = NoState THEN "None"
                                         ELSE "State",
                                 beat |-> r.self.beat]
                      /\ cur' = loop_assign(r)
                      /\ loc' = IF r.done THEN NoLoc ELSE r.loc
                      /\ pc' = IF r.done THEN "loop" ELSE "run"
                      /\ call' = [call EXCEPT !.res.bbox = w.bbox]
    /\ UNCHANGED <<cfg, params, stop, gui>>

NextBind ==
    \/ \E wins \in WinLists : start_with(wins)
    \/ LoopEnterBound
    \/ LoopTopBind
    \/ IterateBind
    \/ Stop

SpecBind == InitStart /\ [][NextBind]_vars

-----------------------------------------------------------------------------
(* C39 *)

\* the recorded rectangle changes in the step
Rebound == call'.res.bbox # call.res.bbox

\* C39: the recorded rectangle changes only in start() and on entry into a
\* Triage run() (or in a capture made while none is recorded); no iteration
\* of any state changes it; and loop() ends with an error only by the
\* window-not-found failure of Triage's re-bind, which leaves the current
\* state and the recorded rectangle as they were
C39_BindingOnlyByStartAndTriage ==
    [][ /\ Rebound =>
              \/ pc \in {"new", "done"} /\ pc' = "started"
              \/ pc = "loop" /\ pc' = "run" /\ cur.kind = "Init"
              \/ pc = "run" /\ call.res.bbox = NoBBox
        /\ (pc = "run" /\ call.res.bbox # NoBBox) => ~Rebound
        /\ pc' = "raised" =>
              /\ pc = "loop" /\ cur.kind = "Init"
              /\ call'.res.raised = "Window not found"
              /\ cur' = cur /\ ~Rebound
      ]_vars

\* another state handed over to Triage and Triage's re-bind failed: the loop
\* ended with the error, Triage is still the current state and the rectangle
\* recorded before is still recorded
C39_Witness ==
    /\ pc = "raised" /\ call.res.raised = "Window not found"
    /\ cur.kind = "Init" /\ out.ret = "State" /\ out.by # "Init"
    /\ call.res.bbox # NoBBox

-----------------------------------------------------------------------------
(* C40 *)

\* the region's sub-image has pixels, the template is in the cache, and the
\* template is wider or taller than the sub-image
TemplateTooLarge(in) ==
    /\ TemplatePresent(in)
    /\ SubImage(in, "roi") # {}
    /\ Fitting(in, "roi") = {}

\* C40: a finished region-restricted match whose sub-image has non-zero
\* area but is narrower or shorter than the template returned none
C40_SmallSubImageYieldsNone ==
    (call.res.roi # Pending /\ TemplateTooLarge(call.in))
        => call.res.roi = None

\* what the code does instead: sub.size > 0 passes the only test of
\* _match_roi and cv2.matchTemplate is called with the larger template
SmallSubImageReachesMatchTemplate ==
    (call.res.roi # Pending /\ TemplateTooLarge(call.in))
        => call.res.roi = Raised

====
